---------------------------- MODULE Spec2Model ----------------------------
(***************************************************************************)
(* A model of hmmlearn/hmm.py (the nelpy fork): the six emission families  *)
(* GaussianHMM, MultinomialHMM, GMMHMM, PoissonHMM, MarkedPoissonHMM and   *)
(* MultiprobeMarkedPoissonHMM, seen through the hooks the EM trainer of    *)
(* _BaseHMM calls: _init, _check, _initialize_sufficient_statistics,       *)
(* _accumulate_sufficient_statistics and _do_mstep.                        *)
(*                                                                         *)
(* Real numbers are exact rationals <<n, d>> (d > 0, lowest terms); a      *)
(* division by zero gives the non-finite value <<s, 0>> (nan, +inf, -inf), *)
(* as numpy does.  An attribute of the model object is <<>> while it is    *)
(* not set (hasattr is false) and <<v>> once it holds v.                   *)
(***************************************************************************)
EXTENDS Integers, Sequences, FiniteSets, TLC

VARIABLES
    family,    \* the class of the model object
    cfg,       \* constructor arguments the code only reads
    self,      \* the attributes of the model object
    stats,     \* the statistics mapping of the running E-step (<<>>: none)
    pending,   \* indices of the batch's sequences not yet accumulated
    accd,      \* the sequences accumulated, in call order
    data,      \* the data set fit is running on (<<>>: none)
    monitor,   \* the fit loop's monitor: completed iterations and history
    call       \* the last hook called: its name, argument and outcome

vars == <<family, cfg, self, stats, pending, accd, data, monitor, call>>

----------------------------------------------------------------------------
(* Bounds of the model.                                                    *)

\* n_components, the number of hidden states of the models checked
NComp == 2
\* longest symbol array given to MultinomialHMM._init (beside the literals)
MaxSymLen == 2
\* number of _init / _check calls made on one model object
MaxCalls == 2
\* number of sequences of a training batch
MaxSeqs == 2
\* largest iteration budget (n_iter) of the fits followed to their end
MaxIter == 3
\* largest number of clusters (n_clusters) whose expected rates are computed
MaxClusters == 3
\* largest number of marks in a frame whose expected rates are computed
MaxMarks == 2
\* largest number of probes of a MultiprobeMarkedPoissonHMM laid out
MaxProbes == 3

States == 1 .. NComp

----------------------------------------------------------------------------
(* Exact rational arithmetic.                                              *)

Abs(i) == IF i < 0 THEN -i ELSE i
Sgn(i) == IF i < 0 THEN -1 ELSE IF i = 0 THEN 0 ELSE 1

RECURSIVE GCD(_, _)
GCD(a, b) == IF b = 0 THEN a ELSE GCD(b, a % b)

\* n / d as a value: lowest terms, or nan / inf when d = 0
R(n, d) ==
    IF d = 0 THEN <<Sgn(n), 0>>
    ELSE LET g == GCD(Abs(n), Abs(d))
         IN  <<Sgn(d) * (n \div g), Abs(d) \div g>>

Q(i) == <<i, 1>>
NaN == <<0, 0>>
IsFinite(a) == a[2] # 0

RAdd(a, b) ==
    IF IsFinite(a) /\ IsFinite(b)
    THEN LET g == GCD(a[2], b[2])
         IN  R(a[1] * (b[2] \div g) + b[1] * (a[2] \div g),
               (a[2] \div g) * b[2])
    ELSE IF IsFinite(b) THEN a
    ELSE IF IsFinite(a) THEN b
    ELSE IF a = b THEN a ELSE NaN
RNeg(a) == <<-a[1], a[2]>>
RSub(a, b) == RAdd(a, RNeg(b))
RMul(a, b) ==
    IF IsFinite(a) /\ IsFinite(b)
    THEN LET g1 == GCD(Abs(a[1]), b[2])
             g2 == GCD(Abs(b[1]), a[2])
         IN  R((a[1] \div g1) * (b[1] \div g2),
               (a[2] \div g2) * (b[2] \div g1))
    ELSE <<Sgn(a[1]) * Sgn(b[1]), 0>>
RDiv(a, b) ==
    IF IsFinite(a) /\ IsFinite(b)
    THEN IF b[1] = 0 THEN <<Sgn(a[1]), 0>>
         ELSE RMul(a, <<Sgn(b[1]) * b[2], Abs(b[1])>>)
    ELSE IF IsFinite(a) THEN Q(0)
    ELSE IF IsFinite(b) THEN <<a[1] * (IF b[1] < 0 THEN -1 ELSE 1), 0>>
    ELSE NaN
\* a > b as numpy compares: false when either side is nan
RGt(a, b) ==
    IF a = NaN \/ b = NaN THEN FALSE
    ELSE IF IsFinite(a) /\ IsFinite(b)
    THEN LET g == GCD(a[2], b[2])
         IN  a[1] * (b[2] \div g) > b[1] * (a[2] \div g)
    ELSE IF IsFinite(b) THEN a[1] > 0
    ELSE IF IsFinite(a) THEN b[1] < 0
    ELSE a[1] > b[1]
RGe(a, b) == a # NaN /\ b # NaN /\ ~RGt(b, a)
RMax(a, b) == IF RGt(b, a) THEN b ELSE a

\* sum of a tuple of rationals, the sum of the tail computed once
RECURSIVE RSum(_)
RSum(v) ==
    IF v = <<>> THEN Q(0)
    ELSE CHOOSE sum \in {RAdd(v[1], rest) : rest \in {RSum(Tail(v))}} : TRUE

\* tuples (vectors) and tuples of tuples (matrices) of rationals.  An array
\* is held by value: its elements are computed once, when it is built.
Eager(f) == IF f = f THEN f ELSE <<>>
Vec(n, F(_)) == Eager([i \in 1 .. n |-> F(i)])
VAdd(u, v) == Eager([i \in 1 .. Len(u) |-> RAdd(u[i], v[i])])
MAdd(a, b) == Eager([i \in 1 .. Len(a) |-> VAdd(a[i], b[i])])
Mat(n, m, F(_, _)) == Vec(n, LAMBDA i : Vec(m, LAMBDA j : F(i, j)))
VZero(n) == [i \in 1 .. n |-> Q(0)]
MZero(n, m) == [i \in 1 .. n |-> VZero(m)]

\* an attribute of an object: not set, or holding a value
Unset == <<>>
Set(v) == <<v>>
Has(a) == a # <<>>
Val(a) == a[1]

----------------------------------------------------------------------------
(* The model object.                                                       *)

Families == {"GaussianHMM", "MultinomialHMM", "GMMHMM", "PoissonHMM",
             "MarkedPoissonHMM", "MultiprobeMarkedPoissonHMM"}
COVARIANCE_TYPES == {"spherical", "diag", "full", "tied"}

\* Python's None, and a number or an array given as a prior
None == <<"None">>
Scalar(r) == <<"scalar", r>>

\* random_state as the constructor stores it: an int seed.  check_random_state
\* turns a seed into a generator at the start of its stream and returns a
\* generator unchanged.
Seed(s) == [kind |-> "seed", seed |-> s, pos |-> 0]
check_random_state(rs) == [rs EXCEPT !.kind = "rng"]
\* the n-th number a generator seeded s draws, a multiple of 1/8 inside (0, 1)
Draw(s, n) == R(1 + (((s + 1) * (n + 2) * (n + 3)) % 7), 8)

\* __init__ of the six classes: the attributes they assign.  startprob_,
\* transmat_, n_features and the emission parameters do not exist yet.
\* _already_initialized exists on the two marked-Poisson classes only.
NewObject(fam, a) ==
    [n_features      |-> Unset,
     startprob_      |-> Unset,
     transmat_       |-> Unset,
     means_          |-> Unset,
     covars_         |-> Unset,
     weights_        |-> Unset,
     emissionprob_   |-> Unset,
     rate_           |-> Unset,
     cluster_means   |-> IF fam \in {"MarkedPoissonHMM",
                                     "MultiprobeMarkedPoissonHMM"}
                         THEN Set(None) ELSE Unset,
     cluster_covars  |-> IF fam \in {"MarkedPoissonHMM",
                                     "MultiprobeMarkedPoissonHMM"}
                         THEN Set(None) ELSE Unset,
     random_state    |-> Seed(a.seed),
     startprob_prior |-> a.startprob_prior,
     transmat_prior  |-> a.transmat_prior,
     means_prior     |-> a.means_prior,
     means_weight    |-> a.means_weight,
     covars_prior    |-> a.covars_prior,
     covars_weight   |-> a.covars_weight,
     weights_prior   |-> a.weights_prior,
     rate_prior      |-> a.rate_prior,
     rate_weight     |-> a.rate_weight,
     already_initialized |-> FALSE]

\* the arguments kept in cfg: attributes no method of the file assigns
NewCfg(a) ==
    [covariance_type |-> a.covariance_type,
     params          |-> a.params,
     init_params     |-> a.init_params,
     min_covar       |-> a.min_covar,
     n_mix           |-> a.n_mix,
     rate_mode       |-> a.rate_mode,
     min_rate        |-> a.min_rate,
     n_clusters      |-> a.n_clusters,
     n_iter          |-> a.n_iter,
     tol             |-> a.tol]

\* the defaults of the constructors' signatures
DefaultArgs ==
    [covariance_type |-> "diag",
     params          |-> {"s", "t", "m", "c", "w", "e", "r"},
     init_params     |-> {"s", "t", "m", "c", "w", "e", "r"},
     min_covar       |-> R(1, 1000),
     n_mix           |-> 1,
     rate_mode       |-> "absolute",
     min_rate        |-> Q(0),
     n_clusters      |-> <<1>>,
     n_iter          |-> 10,
     tol             |-> R(1, 100),
     seed            |-> 0,
     startprob_prior |-> Scalar(Q(1)),
     transmat_prior  |-> Scalar(Q(1)),
     means_prior     |-> Scalar(Q(0)),
     means_weight    |-> Scalar(Q(0)),
     covars_prior    |-> Scalar(R(1, 100)),
     covars_weight   |-> Scalar(Q(1)),
     weights_prior   |-> Scalar(Q(1)),
     rate_prior      |-> Scalar(Q(0)),
     rate_weight     |-> Scalar(Q(0))]

\* the monitor of a fit: the iterations completed, what the E-steps of the
\* running iteration find, and the total log-likelihood of each completed
\* iteration
NewMonitor == [iter |-> 0, shape |-> "certain", history |-> <<>>]

\* call.n counts the hook calls made on the object since its construction
NoCall == [op |-> "__init__", arg |-> <<>>, ret |-> "ok", n |-> 0]
Called(op, arg, ret) == [op |-> op, arg |-> arg, ret |-> ret, n |-> call.n + 1]

----------------------------------------------------------------------------
(* _BaseHMM and hmmlearn.utils: called by hmm.py, defined outside it.      *)

Uniform(n) == Vec(n, LAMBDA i : R(1, n))

\* utils.normalize: divide a vector by its sum
DivideBy(v, s) == Vec(Len(v), LAMBDA i : RDiv(v[i], s))
normalize(v) == DivideBy(v, RSum(v))

\* _BaseHMM._init: seed startprob_ and transmat_ uniformly
BaseInit(obj, c) ==
    [obj EXCEPT
       !.startprob_ = IF "s" \in c.init_params \/ ~Has(@)
                      THEN Set(Uniform(NComp)) ELSE @,
       !.transmat_  = IF "t" \in c.init_params \/ ~Has(@)
                      THEN Set([i \in States |-> Uniform(NComp)]) ELSE @]

----------------------------------------------------------------------------
(* Training data.  A data set X holds n sequences of n_features-wide       *)
(* observations; the E-step hands each sequence to the accumulation hook   *)
(* together with the state posteriors forward-backward computed for it.    *)

\* length of the i-th sequence of a batch, and its t-th observation
SeqLen(i) == 1 + (i % 2)
Obs(i, t, nf) == [f \in 1 .. nf |-> Q((i + t * f) % 3)]
Sequence(i, nf) == [t \in 1 .. SeqLen(i) |-> Obs(i, t, nf)]
Dataset(nf, n) == [nf |-> nf, seqs |-> [i \in 1 .. n |-> Sequence(i, nf)]]
FeatureDims == {1, 2}
Datasets == {Dataset(nf, n) : nf \in FeatureDims, n \in 1 .. MaxSeqs}

\* all observations of a data set, sequence after sequence
RECURSIVE Flatten(_)
Flatten(ss) == IF ss = <<>> THEN <<>> ELSE ss[1] \o Flatten(Tail(ss))

\* posteriors of a sequence of length T: for each frame a distribution over
\* the states.  The E-step of an iteration leaves every frame certain of one
\* state (the state moving on at each frame), or every frame undecided, or
\* the frames of the odd sequences certain and those of the even undecided.
OneHot(k) == Vec(NComp, LAMBDA j : IF j = k THEN Q(1) ELSE Q(0))
PostShapes == {"certain", "undecided", "mixed"}
Posteriors(shape, i, T) ==
    Vec(T, LAMBDA t :
        IF shape = "certain" \/ (shape = "mixed" /\ i % 2 = 1)
        THEN OneHot(1 + ((i + t) % NComp))
        ELSE Uniform(NComp))

\* cluster.KMeans(n).fit(X).cluster_centers_ (scikit-learn): n centres, which
\* move with the data
KMeansCenters(X, n) ==
    [k \in 1 .. n |-> [f \in 1 .. X.nf |-> R(2 * (k + Len(X.seqs)) - 1, 2)]]

\* np.cov(X.T): the unbiased sample covariance of the features,
\* (sum of x_f * x_g - sum of x_f * sum of x_g / n) / (n - 1)
Cov(X) ==
    LET obs == Flatten(X.seqs)
        n == Len(obs)
        sum(f) == RSum([t \in 1 .. n |-> obs[t][f]])
        dot(f, g) == RSum([t \in 1 .. n |-> RMul(obs[t][f], obs[t][g])])
    IN  [f \in 1 .. X.nf |-> [g \in 1 .. X.nf |->
            RDiv(RSub(dot(f, g), RDiv(RMul(sum(f), sum(g)), Q(n))),
                 Q(n - 1))]]

Eye(n) == [f \in 1 .. n |-> [g \in 1 .. n |-> IF f = g THEN Q(1) ELSE Q(0)]]
VScale(a, v) == [i \in 1 .. Len(v) |-> RMul(a, v[i])]
MScale(a, m) == [i \in 1 .. Len(m) |-> VScale(a, m[i])]
Diag(m) == [f \in 1 .. Len(m) |-> m[f][f]]
VMean(v) == RDiv(RSum(v), Q(Len(v)))

\* the number a prior holds in each of its entries
PVal(p) == IF p[1] = "scalar" THEN p[2] ELSE p[3]

----------------------------------------------------------------------------
(* _BaseHMM: the statistics every family starts from and adds to.          *)

\* _BaseHMM._initialize_sufficient_statistics
BaseStats ==
    [nobs  |-> 0,
     start |-> VZero(NComp),
     trans |-> MZero(NComp, NComp)]

\* the expected transition counts of one sequence: for each pair of
\* consecutive frames the joint posterior of the two states
Xi(post) ==
    Mat(NComp, NComp, LAMBDA i, j :
        RSum([t \in 1 .. Len(post) - 1 |-> RMul(post[t][i], post[t + 1][j])]))

\* _BaseHMM._accumulate_sufficient_statistics
BaseAccumulate(st, c, post) ==
    [st EXCEPT
       !.nobs  = @ + 1,
       !.start = IF "s" \in c.params THEN VAdd(@, post[1]) ELSE @,
       !.trans = IF "t" \in c.params THEN MAdd(@, Xi(post)) ELSE @]

\* _BaseHMM._do_mstep: blend the Dirichlet pseudo-counts with the expected
\* counts and renormalize
BaseMstep(obj, c, st) ==
    [obj EXCEPT
       !.startprob_ =
           IF "s" \in c.params
           THEN Set(normalize([k \in States |->
                        RAdd(PVal(obj.startprob_prior), st.start[k])]))
           ELSE @,
       !.transmat_ =
           IF "t" \in c.params
           THEN Set([i \in States |-> normalize([j \in States |->
                        RAdd(PVal(obj.transmat_prior), st.trans[i][j])])])
           ELSE @]

\* _BaseHMM._check: startprob_ and the rows of transmat_ must exist and
\* sum to 1
IsDistribution(v) ==
    /\ \A i \in 1 .. Len(v) : RGe(v[i], Q(0))
    /\ RSum(v) = Q(1)
BaseCheckOutcome(obj) ==
    IF ~Has(obj.startprob_) \/ ~Has(obj.transmat_) THEN "AttributeError"
    ELSE IF /\ IsDistribution(Val(obj.startprob_))
            /\ \A i \in States : IsDistribution(Val(obj.transmat_)[i])
    THEN "ok" ELSE "ValueError"

\* sum over the frames of a sequence of posterior times a per-frame number
PostDot(post, k, G(_)) ==
    RSum([t \in 1 .. Len(post) |-> RMul(post[t][k], G(t))])
\* posteriors.sum(axis=0)
PostSum(post) == Vec(NComp, LAMBDA k : PostDot(post, k, LAMBDA t : Q(1)))

----------------------------------------------------------------------------
(* GaussianHMM.                                                            *)

\* _utils.distribute_covar_matrix_to_match_covariance_type: the compact
\* form of one covariance matrix shared by all states.  spherical (the mean
\* of all the entries of the matrix) and diag are (n_components,
\* n_features), full is (n_components, n_features, n_features), tied is
\* (n_features, n_features).
distribute_covar(cv, ctype, n) ==
    CASE ctype = "spherical" ->
            [k \in 1 .. n |-> [f \in 1 .. Len(cv) |-> VMean(Flatten(cv))]]
      [] ctype = "diag" -> [k \in 1 .. n |-> Diag(cv)]
      [] ctype = "full" -> [k \in 1 .. n |-> cv]
      [] ctype = "tied" -> cv

\* the diagonal of each state's covariance matrix, from the compact form
CovarDiagonals(cov, ctype) ==
    CASE ctype \in {"spherical", "diag"} -> [k \in States |-> cov[k]]
      [] ctype = "full" -> [k \in States |-> Diag(cov[k])]
      [] ctype = "tied" -> [k \in States |-> Diag(cov)]

\* GaussianHMM._init raises after the base class has seeded its part
GaussianInitRaises(obj, X) ==
    Has(obj.n_features) /\ Val(obj.n_features) # X.nf

\* a variant of GaussianHMM._init that seeds the means whatever init_params
\* holds
GaussianInitAlwaysMeans(obj, c, X) ==
    LET o1 == BaseInit(obj, c)
        o2 == [o1 EXCEPT !.n_features = Set(X.nf)]
        o3 == [o2 EXCEPT !.means_ = Set(KMeansCenters(X, NComp))]
        cv == MAdd(Cov(X), MScale(c.min_covar, Eye(X.nf)))
    IN  IF GaussianInitRaises(obj, X) THEN o1
        ELSE IF "c" \in c.init_params \/ ~Has(o3.covars_)
        THEN [o3 EXCEPT !.covars_ =
                Set(distribute_covar(cv, c.covariance_type, NComp))]
        ELSE o3

GaussianInitObject(obj, c, X) ==
    LET o1 == BaseInit(obj, c)
        o2 == [o1 EXCEPT !.n_features = Set(X.nf)]
        o3 == IF "m" \in c.init_params \/ ~Has(o2.means_)
              THEN [o2 EXCEPT !.means_ = Set(KMeansCenters(X, NComp))]
              ELSE o2
        cv == MAdd(Cov(X), MScale(c.min_covar, Eye(X.nf)))
    IN  IF GaussianInitRaises(obj, X) THEN o1
        ELSE IF "c" \in c.init_params \/ ~Has(o3.covars_)
        THEN [o3 EXCEPT !.covars_ =
                Set(distribute_covar(cv, c.covariance_type, NComp))]
        ELSE o3

\* symmetric positive-definite, by the leading minors (matrices of the
\* feature dimensions modelled: 1 x 1 and 2 x 2)
IsPositiveDefinite(m) ==
    /\ \A f, g \in 1 .. Len(m) : m[f][g] = m[g][f]
    /\ RGt(m[1][1], Q(0))
    /\ Len(m) > 1 =>
          RGt(RSub(RMul(m[1][1], m[2][2]), RMul(m[1][2], m[2][1])), Q(0))

\* _utils._validate_covars, for covariances of the shape of their type:
\* positive entries if spherical or diag, symmetric positive-definite
\* matrices if tied or full
_validate_covars(cov, ctype) ==
    CASE ctype \in {"spherical", "diag"} ->
            \A k \in 1 .. Len(cov) : \A f \in 1 .. Len(cov[k]) :
                RGt(cov[k][f], Q(0))
      [] ctype = "tied" -> IsPositiveDefinite(cov)
      [] ctype = "full" -> \A k \in 1 .. Len(cov) : IsPositiveDefinite(cov[k])

\* GaussianHMM._check: n_features follows the means; AttributeError when an
\* attribute it reads does not exist
GaussianCheckOutcome(obj, c) ==
    IF BaseCheckOutcome(obj) # "ok" THEN BaseCheckOutcome(obj)
    ELSE IF ~Has(obj.means_) THEN "AttributeError"
    ELSE IF c.covariance_type \notin COVARIANCE_TYPES THEN "ValueError"
    ELSE IF ~Has(obj.covars_) THEN "AttributeError"
    ELSE IF ~_validate_covars(Val(obj.covars_), c.covariance_type)
    THEN "ValueError"
    ELSE "ok"

GaussianCheckObject(obj, c) ==
    IF BaseCheckOutcome(obj) = "ok" /\ Has(obj.means_)
    THEN [obj EXCEPT !.n_features = Set(Len(Val(obj.means_)[1]))]
    ELSE obj

\* GaussianHMM._initialize_sufficient_statistics
GaussianStats(obj, c) ==
    LET nf == Val(obj.n_features)
    IN  [nobs |-> 0, start |-> VZero(NComp), trans |-> MZero(NComp, NComp),
         post |-> VZero(NComp),
         obs  |-> MZero(NComp, nf),
         obs2 |-> MZero(NComp, nf),
         obsobsT |-> IF c.covariance_type \in {"tied", "full"}
                     THEN [k \in States |-> MZero(nf, nf)] ELSE <<>>]

\* a variant of GaussianHMM._accumulate_sufficient_statistics that assigns
\* stats['post'] and stats['obs'] instead of adding to them
GaussianAccumulateAssign(st, obj, c, obs, post) ==
    LET nf == Val(obj.n_features)
        s1 == BaseAccumulate(st, c, post)
    IN  IF "m" \in c.params \/ "c" \in c.params
        THEN [s1 EXCEPT
                !.post = PostSum(post),
                !.obs = [k \in States |-> [f \in 1 .. nf |->
                            PostDot(post, k, LAMBDA t : obs[t][f])]]]
        ELSE s1

\* GaussianHMM._accumulate_sufficient_statistics
GaussianAccumulate(st, obj, c, obs, post) ==
    LET nf == Val(obj.n_features)
        s1 == BaseAccumulate(st, c, post)
        s2 == IF "m" \in c.params \/ "c" \in c.params
              THEN [s1 EXCEPT
                      !.post = VAdd(@, PostSum(post)),
                      !.obs = MAdd(@, [k \in States |-> [f \in 1 .. nf |->
                                 PostDot(post, k, LAMBDA t : obs[t][f])]])]
              ELSE s1
    IN  IF "c" \notin c.params THEN s2
        ELSE IF c.covariance_type \in {"spherical", "diag"}
        THEN [s2 EXCEPT
                !.obs2 = MAdd(@, [k \in States |-> [f \in 1 .. nf |->
                    PostDot(post, k, LAMBDA t : RMul(obs[t][f], obs[t][f]))]])]
        ELSE [s2 EXCEPT
                !.obsobsT = [k \in States |-> MAdd(@[k],
                    [f \in 1 .. nf |-> [g \in 1 .. nf |->
                      PostDot(post, k,
                              LAMBDA t : RMul(obs[t][f], obs[t][g]))]])]]

\* the means GaussianHMM._do_mstep computes
GaussianNewMeans(obj, st) ==
    LET mp == PVal(obj.means_prior)
        mw == PVal(obj.means_weight)
    IN  [k \in States |-> [f \in 1 .. Len(st.obs[k]) |->
            RDiv(RAdd(RMul(mw, mp), st.obs[k][f]), RAdd(mw, st.post[k]))]]

\* the covariances GaussianHMM._do_mstep computes around the means `means`
GaussianNewCovars(obj, c, st, means) ==
    LET mp == PVal(obj.means_prior)
        mw == PVal(obj.means_weight)
        cp == PVal(obj.covars_prior)
        cw == PVal(obj.covars_weight)
        nf == Len(means[1])
        md(k, f) == RSub(means[k][f], mp)
        diagnum(k, f) ==
            RAdd(RAdd(RMul(mw, RMul(md(k, f), md(k, f))), st.obs2[k][f]),
                 RAdd(RNeg(RMul(Q(2), RMul(means[k][f], st.obs[k][f]))),
                      RMul(RMul(means[k][f], means[k][f]), st.post[k])))
        diagden(k) == RAdd(RMax(RSub(cw, Q(1)), Q(0)), st.post[k])
        diagcov == [k \in States |-> [f \in 1 .. nf |->
                      RDiv(RAdd(cp, diagnum(k, f)),
                           RMax(diagden(k), R(1, 100000)))]]
        fullnum(k, f, g) ==
            RAdd(RAdd(RMul(mw, RMul(md(k, f), md(k, g))), st.obsobsT[k][f][g]),
                 RAdd(RNeg(RAdd(RMul(st.obs[k][f], means[k][g]),
                                RMul(st.obs[k][g], means[k][f]))),
                      RMul(RMul(means[k][f], means[k][g]), st.post[k])))
        cvweight == RMax(RSub(cw, Q(nf)), Q(0))
    IN  CASE c.covariance_type = "diag" -> diagcov
          [] c.covariance_type = "spherical" ->
                [k \in States |-> [f \in 1 .. nf |-> VMean(diagcov[k])]]
          [] c.covariance_type = "tied" ->
                [f \in 1 .. nf |-> [g \in 1 .. nf |->
                    RDiv(RAdd(cp, RSum([k \in States |-> fullnum(k, f, g)])),
                         RAdd(cvweight, RSum(st.post)))]]
          [] c.covariance_type = "full" ->
                [k \in States |-> [f \in 1 .. nf |-> [g \in 1 .. nf |->
                    RDiv(RAdd(cp, fullnum(k, f, g)),
                         RAdd(cvweight, st.post[k]))]]]

\* a variant of GaussianHMM._do_mstep that does not ask params about means_
GaussianMstepAlwaysMeans(obj, c, st) ==
    LET o1 == BaseMstep(obj, c, st)
        o2 == [o1 EXCEPT !.means_ = Set(GaussianNewMeans(o1, st))]
    IN  IF "c" \in c.params
        THEN [o2 EXCEPT !.covars_ =
                Set(GaussianNewCovars(o2, c, st, Val(o2.means_)))]
        ELSE o2

\* GaussianHMM._do_mstep
GaussianMstep(obj, c, st) ==
    LET o1 == BaseMstep(obj, c, st)
        o2 == IF "m" \in c.params
              THEN [o1 EXCEPT !.means_ = Set(GaussianNewMeans(o1, st))]
              ELSE o1
    IN  IF "c" \in c.params
        THEN [o2 EXCEPT !.covars_ =
                Set(GaussianNewCovars(o2, c, st, Val(o2.means_)))]
        ELSE o2

----------------------------------------------------------------------------
(* PoissonHMM.                                                             *)

PoissonInitRaises(obj, X) ==
    Has(obj.n_features) /\ Val(obj.n_features) # X.nf

PoissonInitObject(obj, c, X) ==
    LET o1 == BaseInit(obj, c)
        o2 == [o1 EXCEPT !.n_features = Set(X.nf)]
    IN  IF PoissonInitRaises(obj, X) THEN o1
        ELSE IF "m" \in c.init_params \/ ~Has(o2.means_)
        THEN [o2 EXCEPT !.means_ = Set(KMeansCenters(X, NComp))]
        ELSE o2

PoissonCheckOutcome(obj, c) ==
    IF BaseCheckOutcome(obj) # "ok" THEN BaseCheckOutcome(obj)
    ELSE IF ~Has(obj.means_) THEN "AttributeError"
    ELSE "ok"

PoissonCheckObject(obj, c) ==
    IF PoissonCheckOutcome(obj, c) = "ok"
    THEN [obj EXCEPT !.n_features = Set(Len(Val(obj.means_)[1]))]
    ELSE obj

\* PoissonHMM._initialize_sufficient_statistics
PoissonStats(obj, c) ==
    [nobs |-> 0, start |-> VZero(NComp), trans |-> MZero(NComp, NComp),
     post |-> VZero(NComp),
     obs  |-> MZero(NComp, Val(obj.n_features))]

\* PoissonHMM._accumulate_sufficient_statistics
PoissonAccumulate(st, obj, c, obs, post) ==
    LET s1 == BaseAccumulate(st, c, post)
    IN  IF "m" \in c.params
        THEN [s1 EXCEPT
                !.post = VAdd(@, PostSum(post)),
                !.obs = MAdd(@, [k \in States |->
                           [f \in 1 .. Val(obj.n_features) |->
                              PostDot(post, k, LAMBDA t : obs[t][f])]])]
        ELSE s1

\* np.where(a > 1e-3, a, 1e-3)
FloorAtEpsilon(a) == IF RGt(a, R(1, 1000)) THEN a ELSE R(1, 1000)

\* a variant of PoissonHMM._do_mstep that floors by comparing the other way
\* round (a < 1e-3 gives 1e-3), which lets nan through
PoissonMstepFloorBelow(obj, c, st) ==
    LET o1 == BaseMstep(obj, c, st)
        mp == PVal(obj.means_prior)
        mw == PVal(obj.means_weight)
        blend(k, f) == RDiv(RAdd(RMul(mw, mp), st.obs[k][f]),
                            RAdd(mw, st.post[k]))
    IN  IF "m" \in c.params
        THEN [o1 EXCEPT !.means_ =
                Set(Mat(NComp, Len(st.obs[1]), LAMBDA k, f :
                        IF RGt(R(1, 1000), blend(k, f)) THEN R(1, 1000)
                        ELSE blend(k, f)))]
        ELSE o1

\* PoissonHMM._do_mstep
PoissonMstep(obj, c, st) ==
    LET o1 == BaseMstep(obj, c, st)
        mp == PVal(obj.means_prior)
        mw == PVal(obj.means_weight)
    IN  IF "m" \in c.params
        THEN [o1 EXCEPT !.means_ =
                Set([k \in States |-> [f \in 1 .. Len(st.obs[k]) |->
                    FloorAtEpsilon(RDiv(RAdd(RMul(mw, mp), st.obs[k][f]),
                                        RAdd(mw, st.post[k])))]])]
        ELSE o1

----------------------------------------------------------------------------
(* MultinomialHMM._init and _check_input_symbols.                          *)

\* An observation array: its dtype and, flattened, its symbols.
SymVals == -1 .. 2
RECURSIVE SeqsUpTo(_, _)
SeqsUpTo(S, n) ==
    IF n = 0 THEN {<<>>}
    ELSE LET shorter == SeqsUpTo(S, n - 1)
         IN  shorter \cup {Append(x, v) : x \in {y \in shorter : Len(y) = n - 1},
                                          v \in S}
ValidLiteral == <<0, 0, 2, 1, 3, 1, 1>>
InvalidLiteral == <<0, 0, 3, 5, 10>>
SymArrays ==
    [dtype : {"int", "float"},
     syms  : SeqsUpTo(SymVals, MaxSymLen) \cup {ValidLiteral, InvalidLiteral}]

Range(s) == {s[i] : i \in 1 .. Len(s)}
SetMin(S) == CHOOSE x \in S : \A y \in S : x <= y
SetMax(S) == CHOOSE x \in S : \A y \in S : x >= y

\* np.concatenate(X) raises ValueError on an array with no row
ConcatenateRaises(X) == Len(X.syms) = 0

\* a variant of _check_input_symbols that forgets the test u[0] == 0
CheckSymbolsNoZeroTest(X) ==
    LET symbols == X.syms
        u == Range(symbols)
    IN  IF \/ Len(symbols) = 1
           \/ X.dtype # "int"
           \/ \E i \in 1 .. Len(symbols) : symbols[i] < 0
        THEN FALSE
        ELSE SetMax(u) = SetMin(u) + Cardinality(u) - 1

\* a variant of _check_input_symbols that forgets the test len(symbols) == 1
CheckSymbolsOfOne(X) ==
    LET symbols == X.syms
        u == Range(symbols)
    IN  IF \/ X.dtype # "int"
           \/ \E i \in 1 .. Len(symbols) : symbols[i] < 0
        THEN FALSE
        ELSE SetMin(u) = 0 /\ SetMax(u) = Cardinality(u) - 1

\* _check_input_symbols, for an array np.concatenate accepts
_check_input_symbols(X) ==
    LET symbols == X.syms
        u == Range(symbols)
    IN  IF \/ Len(symbols) = 1
           \/ X.dtype # "int"
           \/ \E i \in 1 .. Len(symbols) : symbols[i] < 0
        THEN FALSE
        ELSE SetMin(u) = 0 /\ SetMax(u) = Cardinality(u) - 1

\* the emission matrix _init draws: rand(n_components, n_features), each row
\* then normalized
RandomEmission(rs, nf) ==
    [k \in States |->
        normalize([j \in 1 .. nf |-> Draw(rs.seed, rs.pos + (k - 1) * nf + j)])]

MultinomialInitRaises(X) ==
    ConcatenateRaises(X) \/ ~_check_input_symbols(X)

MultinomialInitObject(obj, c, X) ==
    IF MultinomialInitRaises(X) THEN obj ELSE
    LET o1 == BaseInit(obj, c)
        rs == check_random_state(o1.random_state)
        o2 == [o1 EXCEPT !.random_state = rs]
        nf == IF Has(o2.n_features) THEN Val(o2.n_features)
              ELSE Cardinality(Range(X.syms))
    IN  IF "e" \in c.init_params
        THEN [o2 EXCEPT
                !.n_features = Set(nf),
                !.emissionprob_ = Set(RandomEmission(rs, nf)),
                !.random_state = [rs EXCEPT !.pos = @ + NComp * nf]]
        ELSE o2

MultinomialInit(X) ==
    /\ family = "MultinomialHMM"
    /\ IF MultinomialInitRaises(X)
       THEN /\ call' = Called("_init", X, "ValueError")
            /\ UNCHANGED self
       ELSE /\ call' = Called("_init", X, "ok")
            /\ self' = MultinomialInitObject(self, cfg, X)
    /\ UNCHANGED <<family, cfg, stats, pending, accd, data, monitor>>

\* the symbol sequences of a training batch: both symbols 0 and 1 occur
SymSequence(i) == [t \in 1 .. SeqLen(i) |-> (i + t) % 2]
SymDataset(n) ==
    LET seqs == [i \in 1 .. n |-> SymSequence(i)]
    IN  [dtype |-> "int", syms |-> Flatten(seqs), seqs |-> seqs]

\* MultinomialHMM._check
MultinomialCheckOutcome(obj, c) ==
    IF BaseCheckOutcome(obj) # "ok" THEN BaseCheckOutcome(obj)
    ELSE IF ~Has(obj.emissionprob_) THEN "AttributeError"
    ELSE IF Has(obj.n_features)
            /\ Len(Val(obj.emissionprob_)[1]) # Val(obj.n_features)
    THEN "ValueError"
    ELSE "ok"

MultinomialCheckObject(obj, c) ==
    IF MultinomialCheckOutcome(obj, c) = "ok"
    THEN [obj EXCEPT !.n_features =
            IF Has(@) THEN @ ELSE Set(Len(Val(obj.emissionprob_)[1]))]
    ELSE obj

\* MultinomialHMM._initialize_sufficient_statistics
MultinomialStats(obj, c) ==
    [nobs |-> 0, start |-> VZero(NComp), trans |-> MZero(NComp, NComp),
     obs  |-> MZero(NComp, Val(obj.n_features))]

\* MultinomialHMM._accumulate_sufficient_statistics: symbol s counts in
\* column s (the model's columns start at 1)
MultinomialAccumulate(st, obj, c, syms, post) ==
    LET s1 == BaseAccumulate(st, c, post)
    IN  IF "e" \in c.params
        THEN [s1 EXCEPT !.obs = [k \in States |->
                [j \in 1 .. Len(@[k]) |->
                    RAdd(@[k][j],
                         PostDot(post, k, LAMBDA t :
                             IF syms[t] + 1 = j THEN Q(1) ELSE Q(0)))]]]
        ELSE s1

\* a variant of MultinomialHMM._do_mstep that does not run the core M-step
\* and leaves the expected counts in startprob_ and transmat_
MultinomialMstepNoCore(obj, c, st) ==
    LET o1 == [obj EXCEPT !.startprob_ = Set(st.start),
                          !.transmat_ = Set(st.trans)]
    IN  IF "e" \in c.params
        THEN [o1 EXCEPT !.emissionprob_ =
                Set([k \in States |-> [j \in 1 .. Len(st.obs[k]) |->
                        RDiv(st.obs[k][j], RSum(st.obs[k]))]])]
        ELSE o1

\* MultinomialHMM._do_mstep
MultinomialMstep(obj, c, st) ==
    LET o1 == BaseMstep(obj, c, st)
    IN  IF "e" \in c.params
        THEN [o1 EXCEPT !.emissionprob_ =
                Set([k \in States |-> [j \in 1 .. Len(st.obs[k]) |->
                        RDiv(st.obs[k][j], RSum(st.obs[k]))]])]
        ELSE o1

\* MultinomialHMM models under the two settings of 'e' in init_params
InitSym ==
    /\ family = "MultinomialHMM"
    /\ \E ip \in {{"s", "t", "e"}, {"s", "t"}} :
          cfg = NewCfg([DefaultArgs EXCEPT !.init_params = ip])
    /\ self = NewObject(family, DefaultArgs)
    /\ stats = <<>>
    /\ pending = {}
    /\ accd = <<>>
    /\ data = Unset
    /\ monitor = NewMonitor
    /\ call = NoCall

NextSym == call.n < MaxCalls /\ \E X \in SymArrays : MultinomialInit(X)

SpecSym == InitSym /\ [][NextSym]_vars

----------------------------------------------------------------------------
(* GMMHMM.  weights_ is (n_components, n_mix), means_ is (n_components,    *)
(* n_mix, n_features); covars_ is (n_components, n_mix) if spherical,      *)
(* (n_components, n_mix, n_features) if diag, (n_components, n_features,   *)
(* n_features) if tied and (n_components, n_mix, n_features, n_features)   *)
(* if full.                                                                *)

\* an array all of whose entries hold the number r
Array(shape, r) == <<"array", shape, r>>

\* np.broadcast_to(p, shape) succeeds when, read from the last axis, every
\* axis of p has the wanted length or length 1
Broadcastable(p, shape) ==
    \/ p[1] = "scalar"
    \/ /\ p[1] = "array"
       /\ Len(p[2]) <= Len(shape)
       /\ \A d \in 1 .. Len(p[2]) :
             LET old == p[2][Len(p[2]) + 1 - d]
             IN  old = 1 \/ old = shape[Len(shape) + 1 - d]

\* GMMHMM._init_covar_priors: defaults for the priors left at None
GMMInitCovarPriors(obj, c) ==
    LET nf == Val(obj.n_features)
        dflt == CASE c.covariance_type = "full" ->
                        <<Q(0), Q(-(1 + nf + 1))>>
                  [] c.covariance_type = "tied" ->
                        <<Q(0), Q(-(c.n_mix + nf + 1))>>
                  [] c.covariance_type = "diag" -> <<R(-3, 2), Q(0)>>
                  [] c.covariance_type = "spherical" ->
                        <<R(-(c.n_mix + 2), 2), Q(0)>>
    IN  [obj EXCEPT
           !.covars_prior = IF @ = None THEN Scalar(dflt[1]) ELSE @,
           !.covars_weight = IF @ = None THEN Scalar(dflt[2]) ELSE @]

\* the shapes GMMHMM._fix_priors_shape gives the priors, in the order it
\* assigns them
GMMPriorShapes(c, nf) ==
    LET K == NComp
        M == c.n_mix
    IN  <<<<"weights_prior", <<K, M>>>>,
          <<"means_prior", <<K, M, nf>>>>,
          <<"means_weight", <<K, M>>>>>> \o
        CASE c.covariance_type = "full" ->
                <<<<"covars_prior", <<K, M, nf, nf>>>>,
                  <<"covars_weight", <<K, M>>>>>>
          [] c.covariance_type = "tied" ->
                <<<<"covars_prior", <<K, nf, nf>>>>,
                  <<"covars_weight", <<K>>>>>>
          [] c.covariance_type = "diag" ->
                <<<<"covars_prior", <<K, M, nf>>>>,
                  <<"covars_weight", <<K, M, nf>>>>>>
          [] c.covariance_type = "spherical" ->
                <<<<"covars_prior", <<K, M>>>>,
                  <<"covars_weight", <<K, M>>>>>>

\* GMMHMM._fix_priors_shape: every prior becomes an array of its shape; the
\* first prior that cannot be broadcast raises and ends the call, the priors
\* before it assigned
GMMFixPriorsShape(obj, c) ==
    LET todo == GMMPriorShapes(c, Val(obj.n_features))
        bad == {j \in 1 .. Len(todo) :
                   ~Broadcastable(obj[todo[j][1]], todo[j][2])}
        stop == IF bad = {} THEN Len(todo) + 1 ELSE SetMin(bad)
        fixed(name, old) ==
            IF \E j \in 1 .. (stop - 1) : todo[j][1] = name
            THEN LET j == CHOOSE i \in 1 .. (stop - 1) : todo[i][1] = name
                 IN  Array(todo[j][2], PVal(old))
            ELSE old
    IN  [obj |-> [obj EXCEPT
                    !.weights_prior = fixed("weights_prior", @),
                    !.means_prior = fixed("means_prior", @),
                    !.means_weight = fixed("means_weight", @),
                    !.covars_prior = fixed("covars_prior", @),
                    !.covars_weight = fixed("covars_weight", @)],
         raised |-> bad # {}]

\* the centres of the per-state KMeans(n_mix) fits
GMMKMeansCenters(X, M) ==
    [k \in States |-> [m \in 1 .. M |-> [f \in 1 .. X.nf |->
        R(2 * (k + Len(X.seqs)) + m - 1, 2)]]]

\* cv.mean(): the mean of all the entries of a matrix
MMean(m) == VMean([i \in 1 .. Len(m) |-> VMean(m[i])])

GMMInitialCovars(cv, c) ==
    LET M == c.n_mix
    IN  CASE c.covariance_type = "tied" -> [k \in States |-> cv]
          [] c.covariance_type = "full" ->
                [k \in States |-> [m \in 1 .. M |-> cv]]
          [] c.covariance_type = "diag" ->
                [k \in States |-> [m \in 1 .. M |-> Diag(cv)]]
          [] c.covariance_type = "spherical" ->
                [k \in States |-> [m \in 1 .. M |-> MMean(cv)]]

\* GMMHMM._init up to the priors: n_features is taken from the data
GMMInitPriors(obj, c, X) ==
    LET o1 == BaseInit(obj, c)
        o2 == [o1 EXCEPT !.n_features = Set(X.nf)]
    IN  GMMFixPriorsShape(GMMInitCovarPriors(o2, c), c)

GMMInitRaises(obj, c, X) == GMMInitPriors(obj, c, X).raised

GMMInitObject(obj, c, X) ==
    LET o3 == GMMInitPriors(obj, c, X).obj
        o4 == IF "w" \in c.init_params \/ ~Has(o3.weights_)
              THEN [o3 EXCEPT !.weights_ =
                      Set([k \in States |-> Uniform(c.n_mix)])]
              ELSE o3
        o5 == IF "m" \in c.init_params \/ ~Has(o4.means_)
              THEN [o4 EXCEPT !.means_ = Set(GMMKMeansCenters(X, c.n_mix))]
              ELSE o4
        cv == MAdd(Cov(X), MScale(c.min_covar, Eye(X.nf)))
    IN  IF GMMInitRaises(obj, c, X) THEN o3
        ELSE IF "c" \in c.init_params \/ ~Has(o5.covars_)
        THEN [o5 EXCEPT !.covars_ = Set(GMMInitialCovars(cv, c))]
        ELSE o5

GMMMeansShapeOk(means, c, nf) ==
    /\ Len(means) = NComp
    /\ \A k \in States :
          /\ Len(means[k]) = c.n_mix
          /\ \A m \in 1 .. c.n_mix : Len(means[k][m]) = nf

GMMCovarsShapeOk(cov, c, nf) ==
    /\ Len(cov) = NComp
    /\ \A k \in States :
          CASE c.covariance_type = "spherical" -> Len(cov[k]) = c.n_mix
            [] c.covariance_type = "diag" ->
                  /\ Len(cov[k]) = c.n_mix
                  /\ \A m \in 1 .. c.n_mix : Len(cov[k][m]) = nf
            [] c.covariance_type = "tied" ->
                  /\ Len(cov[k]) = nf
                  /\ \A f \in 1 .. nf : Len(cov[k][f]) = nf
            [] c.covariance_type = "full" ->
                  /\ Len(cov[k]) = c.n_mix
                  /\ \A m \in 1 .. c.n_mix :
                        /\ Len(cov[k][m]) = nf
                        /\ \A f \in 1 .. nf : Len(cov[k][m][f]) = nf

GMMCovarsValid(cov, c) ==
    \A k \in States :
        CASE c.covariance_type = "spherical" ->
                \A m \in 1 .. c.n_mix : RGt(cov[k][m], Q(0))
          [] c.covariance_type = "diag" ->
                \A m \in 1 .. c.n_mix : \A f \in 1 .. Len(cov[k][m]) :
                    RGt(cov[k][m][f], Q(0))
          [] c.covariance_type = "tied" -> IsPositiveDefinite(cov[k])
          [] c.covariance_type = "full" ->
                \A m \in 1 .. c.n_mix : IsPositiveDefinite(cov[k][m])

\* np.allclose(a, b) with its default rtol = 1e-5 and atol = 1e-8:
\* |a - b| <= atol + rtol * |b|, false when a is nan
AllClose(a, b) ==
    LET diff == RSub(a, b)
        dist == IF RGt(Q(0), diff) THEN RNeg(diff) ELSE diff
        size == IF RGt(Q(0), b) THEN RNeg(b) ELSE b
    IN  RGe(RAdd(R(1, 100000000), RMul(R(1, 100000), size)), dist)

GMMWeightsShapeOk(w, c) ==
    /\ Len(w) = NComp
    /\ \A k \in States : Len(w[k]) = c.n_mix

\* GMMHMM._check: the object it leaves and how it ends
GMMCheck(obj, c) ==
    LET base == BaseCheckOutcome(obj)
        o1 == IF Has(obj.n_features) THEN obj
              ELSE [obj EXCEPT !.n_features =
                       Set(Len(Val(obj.means_)[1][1]))]
        pri == GMMFixPriorsShape(GMMInitCovarPriors(o1, c), c)
        nf == Val(o1.n_features)
    IN  IF base # "ok" THEN [obj |-> obj, ret |-> base]
        ELSE IF ~Has(obj.n_features) /\ ~Has(obj.means_)
        THEN [obj |-> obj, ret |-> "AttributeError"]
        ELSE IF pri.raised THEN [obj |-> pri.obj, ret |-> "ValueError"]
        ELSE [obj |-> pri.obj,
              ret |->
                IF c.covariance_type \notin COVARIANCE_TYPES
                THEN "ValueError"
                ELSE IF ~Has(obj.weights_) THEN "AttributeError"
                ELSE IF ~GMMWeightsShapeOk(Val(obj.weights_), c)
                THEN "ValueError"
                ELSE IF \E k \in States :
                           ~AllClose(RSum(Val(obj.weights_)[k]), Q(1))
                THEN "ValueError"
                ELSE IF ~Has(obj.means_) THEN "AttributeError"
                ELSE IF ~GMMMeansShapeOk(Val(obj.means_), c, nf)
                THEN "ValueError"
                ELSE IF ~Has(obj.covars_) THEN "AttributeError"
                ELSE IF ~GMMCovarsShapeOk(Val(obj.covars_), c, nf)
                THEN "ValueError"
                ELSE IF ~GMMCovarsValid(Val(obj.covars_), c)
                THEN "ValueError"
                ELSE "ok"]

GMMCheckOutcome(obj, c) == GMMCheck(obj, c).ret
GMMCheckObject(obj, c) == GMMCheck(obj, c).obj

\* GMMHMM._initialize_sufficient_statistics
GMMStats(obj, c) ==
    [nobs  |-> BaseStats.nobs,
     start |-> BaseStats.start,
     trans |-> BaseStats.trans,
     n_samples     |-> 0,
     post_comp_mix |-> None,
     post_mix_sum  |-> MZero(NComp, c.n_mix),
     post_sum      |-> VZero(NComp),
     samples       |-> None,
     centered      |-> None]

\* the responsibilities of the mixture components of state p for one frame:
\* the weighted component densities plus eps, divided by their sum, so each
\* is positive and they sum to 1.  The component favoured depends on the
\* frame.
PostMix(x, p, M) ==
    LET j == 1 + ((x[1][1] + p) % M)
    IN  [m \in 1 .. M |-> IF m = j THEN R(2, M + 1) ELSE R(1, M + 1)]

\* post_comp[:, :, np.newaxis] * post_mix
PostCompMix(X, post, M) ==
    [t \in 1 .. Len(X) |-> [p \in States |->
        VScale(post[t][p], PostMix(X[t], p, M))]]

\* GMMHMM._accumulate_sufficient_statistics: every statistic of the family
\* is assigned from the sequence at hand
GMMAccumulate(st, obj, c, X, post_comp) ==
    LET s1 == BaseAccumulate(st, c, post_comp)
        n == Len(X)
        pcm == PostCompMix(X, post_comp, c.n_mix)
        means == Val(obj.means_)
    IN  [s1 EXCEPT
           !.n_samples = n,
           !.samples = X,
           !.post_comp_mix = pcm,
           !.post_mix_sum =
               [p \in States |-> [m \in 1 .. c.n_mix |->
                   RSum([t \in 1 .. n |-> pcm[t][p][m]])]],
           !.post_sum = PostSum(post_comp),
           !.centered =
               [t \in 1 .. n |-> [p \in States |-> [m \in 1 .. c.n_mix |->
                   [f \in 1 .. Len(X[t]) |->
                       RSub(X[t][f], means[p][m][f])]]]]]

\* the new mixture weights with the prior left out of the denominator
GMMNewWeightsNoPrior(obj, c, st) ==
    LET alphas_minus_one == RSub(PVal(obj.weights_prior), Q(1))
    IN  [j \in States |-> [k \in 1 .. c.n_mix |->
            RDiv(RAdd(st.post_mix_sum[j][k], alphas_minus_one),
                 st.post_sum[j])]]

\* GMMHMM._do_mstep: the new mixture weights
GMMNewWeights(obj, c, st) ==
    LET alphas_minus_one == RSub(PVal(obj.weights_prior), Q(1))
    IN  [j \in States |-> [k \in 1 .. c.n_mix |->
            RDiv(RAdd(st.post_mix_sum[j][k], alphas_minus_one),
                 RAdd(st.post_sum[j],
                      RMul(Q(c.n_mix), alphas_minus_one)))]]

\* sum over the samples of the accumulator of post_comp_mix times a
\* per-sample number
MixDot(st, j, k, G(_)) ==
    RSum([i \in 1 .. st.n_samples |-> RMul(st.post_comp_mix[i][j][k], G(i))])

\* GMMHMM._do_mstep: the new means
GMMNewMeans(obj, c, st) ==
    LET lambdas == PVal(obj.means_weight)
        mus == PVal(obj.means_prior)
        nf == Val(obj.n_features)
    IN  [j \in States |-> [k \in 1 .. c.n_mix |-> [l \in 1 .. nf |->
            RDiv(RAdd(MixDot(st, j, k, LAMBDA i : st.samples[i][l]),
                      RMul(lambdas, mus)),
                 RAdd(st.post_mix_sum[j][k], lambdas))]]]

\* GMMHMM._do_mstep: the new covariances, from the means before the step
GMMNewCovars(obj, c, st) ==
    LET lambdas == PVal(obj.means_weight)
        mus == PVal(obj.means_prior)
        nf == Val(obj.n_features)
        M == c.n_mix
        cp == PVal(obj.covars_prior)
        cw == PVal(obj.covars_weight)
        cm(j, k, l) == RSub(Val(obj.means_)[j][k][l], mus)
        cd(i, j, k, l) == st.centered[i][j][k][l]
        dots(j, k, l, m) ==
            MixDot(st, j, k, LAMBDA i : RMul(cd(i, j, k, l), cd(i, j, k, m)))
        norm2(v(_)) == RSum([l \in 1 .. nf |-> RMul(v(l), v(l))])
    IN  CASE c.covariance_type = "full" ->
            [j \in States |-> [k \in 1 .. M |->
             [l \in 1 .. nf |-> [m \in 1 .. nf |->
                RDiv(RAdd(RAdd(dots(j, k, l, m), cp),
                          RMul(lambdas, RMul(cm(j, k, l), cm(j, k, m)))),
                     RAdd(RAdd(st.post_mix_sum[j][k], cw), Q(nf + 2)))]]]]
          [] c.covariance_type = "diag" ->
            [j \in States |-> [k \in 1 .. M |-> [l \in 1 .. nf |->
                RDiv(RAdd(RAdd(dots(j, k, l, l),
                               RMul(lambdas, RMul(cm(j, k, l), cm(j, k, l)))),
                          RMul(Q(2), cw)),
                     RAdd(RAdd(st.post_mix_sum[j][k], Q(1)),
                          RMul(Q(2), RAdd(cp, Q(1)))))]]]
          [] c.covariance_type = "spherical" ->
            [j \in States |-> [k \in 1 .. M |->
                RDiv(RAdd(RAdd(MixDot(st, j, k, LAMBDA i :
                                   norm2(LAMBDA l : cd(i, j, k, l))),
                               RMul(lambdas,
                                    norm2(LAMBDA l : cm(j, k, l)))),
                          RMul(Q(2), cw)),
                     RAdd(RAdd(RMul(Q(nf), st.post_mix_sum[j][k]), Q(nf)),
                          RMul(Q(2), RAdd(cp, Q(1)))))]]
          [] c.covariance_type = "tied" ->
            [j \in States |-> [l \in 1 .. nf |-> [m \in 1 .. nf |->
                RDiv(RAdd(RAdd(RSum([k \in 1 .. M |-> dots(j, k, l, m)]),
                               RSum([k \in 1 .. M |->
                                   RMul(lambdas,
                                        RMul(cm(j, k, l), cm(j, k, m)))])),
                          cp),
                     RAdd(RAdd(st.post_sum[j], cw), Q(M + nf + 1)))]]]

\* GMMHMM._do_mstep: the three groups are assigned whatever params holds
GMMMstep(obj, c, st) ==
    LET o1 == BaseMstep(obj, c, st)
    IN  [o1 EXCEPT
           !.weights_ = Set(GMMNewWeights(obj, c, st)),
           !.means_ = Set(GMMNewMeans(obj, c, st)),
           !.covars_ = Set(GMMNewCovars(obj, c, st))]

----------------------------------------------------------------------------
(* MarkedPoissonHMM and MultiprobeMarkedPoissonHMM.  An observation is a   *)
(* list of marks (one list per probe in the multi-probe class); a mark is  *)
(* a point on a line (cluster_dim = 1).  n_clusters holds one number per   *)
(* probe; MarkedPoissonHMM has a single probe.                             *)

\* the marks of frame t of sequence i: none, one or two
MarkFrame(i, t) == [k \in 1 .. ((i + t) % 3) |-> (i + 2 * t + k) % 4]
MarkSequence(i) == [t \in 1 .. SeqLen(i) |-> MarkFrame(i, t)]
MarkDataset(n) == [nprobes |-> 1, seqs |-> [i \in 1 .. n |-> MarkSequence(i)]]
ProbeSequence(i, np) ==
    [t \in 1 .. SeqLen(i) |-> [p \in 1 .. np |-> MarkFrame(i + p - 1, t)]]
ProbeDataset(n, np) ==
    [nprobes |-> np, seqs |-> [i \in 1 .. n |-> ProbeSequence(i, np)]]

RECURSIVE SumTo(_, _)
\* n_clusters[0] + ... + n_clusters[p-1]
SumTo(ncl, p) == IF p = 0 THEN 0 ELSE ncl[p] + SumTo(ncl, p - 1)
NTotal(ncl) == SumTo(ncl, Len(ncl))

\* mixture.GaussianMixture(N).fit(marks): the means and the covariances of
\* N clusters (scikit-learn)
GaussianMixtureMeans(N) == [n \in 1 .. N |-> <<Q(2 * (n - 1))>>]
GaussianMixtureCovars(N) == [n \in 1 .. N |-> <<Q(1)>>]

\* rng.gamma(1, 1, size=(n_components, N)), each row divided by its sum
RandomRates(rs, N) ==
    [k \in States |->
        normalize([j \in 1 .. N |-> Draw(rs.seed, rs.pos + (k - 1) * N + j)])]

\* a variant of MarkedPoissonHMM._init that runs at every call
MarkedInitEveryTime(obj, c, X) ==
    LET N == c.n_clusters[1]
        o1 == BaseInit(obj, c)
        o2 == IF "c" \in c.init_params
              THEN [o1 EXCEPT
                      !.cluster_means = Set(GaussianMixtureMeans(N)),
                      !.cluster_covars = Set(GaussianMixtureCovars(N))]
              ELSE o1
        o3 == IF "r" \in c.init_params \/ ~Has(o2.rate_)
              THEN [o2 EXCEPT !.rate_ =
                      Set(RandomRates(check_random_state(o2.random_state), N))]
              ELSE o2
    IN  [o3 EXCEPT !.already_initialized = TRUE]

\* MarkedPoissonHMM._init: a no-op once _already_initialized
MarkedInitObject(obj, c, X) ==
    IF obj.already_initialized THEN obj ELSE
    LET N == c.n_clusters[1]
        o1 == BaseInit(obj, c)
        o2 == IF "c" \in c.init_params
              THEN [o1 EXCEPT
                      !.cluster_means = Set(GaussianMixtureMeans(N)),
                      !.cluster_covars = Set(GaussianMixtureCovars(N))]
              ELSE o1
        o3 == IF "r" \in c.init_params \/ ~Has(o2.rate_)
              THEN [o2 EXCEPT !.rate_ =
                      Set(RandomRates(check_random_state(o2.random_state), N))]
              ELSE o2
    IN  [o3 EXCEPT !.already_initialized = TRUE]

\* MultiprobeMarkedPoissonHMM._init: asserts the probe count after the
\* base class has seeded its part
MultiprobeInitRaises(obj, c, X) ==
    ~obj.already_initialized /\ Len(c.n_clusters) # X.nprobes

MultiprobeInitObject(obj, c, X) ==
    IF obj.already_initialized THEN obj ELSE
    LET np == Len(c.n_clusters)
        o1 == BaseInit(obj, c)
        o2 == IF "c" \in c.init_params
              THEN [o1 EXCEPT
                      !.cluster_means =
                          Set([p \in 1 .. np |->
                                  GaussianMixtureMeans(c.n_clusters[p])]),
                      !.cluster_covars =
                          Set([p \in 1 .. np |->
                                  GaussianMixtureCovars(c.n_clusters[p])])]
              ELSE o1
        o3 == IF "r" \in c.init_params \/ ~Has(o2.rate_)
              THEN [o2 EXCEPT !.rate_ =
                      Set(RandomRates(check_random_state(o2.random_state),
                                      NTotal(c.n_clusters)))]
              ELSE o2
    IN  IF MultiprobeInitRaises(obj, c, X) THEN o1
        ELSE [o3 EXCEPT !.already_initialized = TRUE]

\* MarkedPoissonHMM._check
MarkedCheckOutcome(obj, c) ==
    IF BaseCheckOutcome(obj) # "ok" THEN BaseCheckOutcome(obj)
    ELSE IF ~Has(obj.rate_) THEN "AttributeError"
    ELSE IF c.n_clusters[1] # Len(Val(obj.rate_)[1]) THEN "AssertionError"
    ELSE IF c.covariance_type \notin COVARIANCE_TYPES THEN "ValueError"
    ELSE IF Val(obj.cluster_covars) = None \/ Val(obj.cluster_means) = None
    THEN "AttributeError"
    ELSE IF Len(Val(obj.cluster_means)) # c.n_clusters[1]
    THEN "AssertionError"
    ELSE "ok"

\* MultiprobeMarkedPoissonHMM._check
MultiprobeCheckOutcome(obj, c) ==
    IF BaseCheckOutcome(obj) # "ok" THEN BaseCheckOutcome(obj)
    ELSE IF ~Has(obj.rate_) THEN "AttributeError"
    ELSE IF NTotal(c.n_clusters) # Len(Val(obj.rate_)[1])
    THEN "AssertionError"
    ELSE IF c.covariance_type \notin COVARIANCE_TYPES THEN "ValueError"
    ELSE IF Val(obj.cluster_covars) = None \/ Val(obj.cluster_means) = None
    THEN "TypeError"
    ELSE IF \E p \in 1 .. Len(c.n_clusters) :
               Len(Val(obj.cluster_means)[p]) # c.n_clusters[p]
    THEN "AssertionError"
    ELSE "ok"

\* the two _check methods assign rate_ (as an array) and cluster_dim only
MarkedCheckObject(obj, c) == obj

\* _initialize_sufficient_statistics of the two classes
MarkedStats(obj, c) ==
    [nobs |-> 0, start |-> VZero(NComp), trans |-> MZero(NComp, NComp),
     post |-> VZero(NComp),
     numerator |-> MZero(NComp, c.n_clusters[1])]
MultiprobeStats(obj, c) ==
    [nobs |-> 0, start |-> VZero(NComp), trans |-> MZero(NComp, NComp),
     post |-> VZero(NComp),
     numerator |-> MZero(NComp, NTotal(c.n_clusters))]

\* a variant of cluster_ids that starts counting anew on every probe
ClusterIdsPerProbe(ncl) ==
    [p \in 1 .. Len(ncl) |-> [n \in 1 .. ncl[p] |-> n]]

\* MultiprobeMarkedPoissonHMM.cluster_ids: the columns of rate_ that belong
\* to a probe (columns counted from 1)
cluster_ids(ncl) ==
    [p \in 1 .. Len(ncl) |->
        [n \in 1 .. ncl[p] |-> SumTo(ncl, p - 1) + n]]

\* exp(MIN_LOGLIKELIHOOD), the least density a mark is given
ExpMinLogLikelihood == R(1, 1000)
\* multivariate_normal(mean, cov).pdf(mark) (scipy), which underflows far
\* from the mean, and the clamp f[f < MIN_LOGLIKELIHOOD] = MIN_LOGLIKELIHOOD
MarkDensity(mark, mean) ==
    LET d == Abs(mark - mean[1][1])
    IN  IF d >= 3 THEN Q(0) ELSE R(1, 1 + d * d)
ClampedDensity(mark, mean) == RMax(MarkDensity(mark, mean), ExpMinLogLikelihood)

\* a variant of the expected rates that does not subtract den: a mark counts
\* for a cluster by density times rate, not by its share of it
ExpectedRatesNoDen(marks, r, means, c) ==
    LET N == Len(r)
        K == Len(marks)
        F(nn, kk) == ClampedDensity(marks[kk], means[nn])
        total(nn) == RSum([kk \in 1 .. K |-> RMul(F(nn, kk), r[nn])])
    IN  IF K > 0
        THEN Vec(N, LAMBDA nn :
                IF c.rate_mode = "relative" THEN RDiv(total(nn), Q(K))
                ELSE total(nn))
        ELSE Vec(N, LAMBDA nn : c.min_rate)

\* a variant of the expected rates that divides by the number of marks in
\* absolute mode too
ExpectedRatesAlwaysMean(marks, r, means, c) ==
    LET N == Len(r)
        K == Len(marks)
        F(nn, kk) == ClampedDensity(marks[kk], means[nn])
        den == Vec(K, LAMBDA kk : RSum([nn \in 1 .. N |-> RMul(F(nn, kk), r[nn])]))
        mnp(nn, kk) == RDiv(RMul(F(nn, kk), r[nn]), den[kk])
        total(nn) == RSum([kk \in 1 .. K |-> mnp(nn, kk)])
    IN  IF K > 0
        THEN Vec(N, LAMBDA nn : RDiv(total(nn), Q(K)))
        ELSE Vec(N, LAMBDA nn : c.min_rate)

\* the expected rates of one frame over the N clusters of rates r: each mark
\* is shared among the clusters in proportion to density times rate
ExpectedRates(marks, r, means, c) ==
    LET N == Len(r)
        K == Len(marks)
        F(nn, kk) == ClampedDensity(marks[kk], means[nn])
        den == Vec(K, LAMBDA kk : RSum([nn \in 1 .. N |-> RMul(F(nn, kk), r[nn])]))
        mnp(nn, kk) == RDiv(RMul(F(nn, kk), r[nn]), den[kk])
        total(nn) == RSum([kk \in 1 .. K |-> mnp(nn, kk)])
    IN  IF K > 0
        THEN Vec(N, LAMBDA nn :
                IF c.rate_mode = "relative" THEN RDiv(total(nn), Q(K))
                ELSE total(nn))
        ELSE Vec(N, LAMBDA nn : c.min_rate)

\* MarkedPoissonHMM._accumulate_sufficient_statistics
MarkedAccumulate(st, obj, c, obs, post) ==
    LET s1 == BaseAccumulate(st, c, post)
        N == c.n_clusters[1]
        R_ == Val(obj.rate_)
        expected_rates == Mat(NComp, Len(obs), LAMBDA zz, mm :
            ExpectedRates(obs[mm], R_[zz], Val(obj.cluster_means), c))
        numerator == Mat(NComp, N, LAMBDA zz, nn :
            PostDot(post, zz, LAMBDA mm : expected_rates[zz][mm][nn]))
    IN  IF "r" \in c.params
        THEN [s1 EXCEPT !.post = VAdd(@, PostSum(post)),
                        !.numerator = MAdd(@, numerator)]
        ELSE s1

\* the probe a column of rate_ belongs to, and its place inside the probe
ProbeOf(ncl, col) == CHOOSE p \in 1 .. Len(ncl) :
                        SumTo(ncl, p - 1) < col /\ col <= SumTo(ncl, p)

\* MultiprobeMarkedPoissonHMM._accumulate_sufficient_statistics
MultiprobeAccumulate(st, obj, c, obs, post) ==
    LET s1 == BaseAccumulate(st, c, post)
        ids == cluster_ids(c.n_clusters)
        R_ == Val(obj.rate_)
        r(zz, probe) == [n \in 1 .. Len(ids[probe]) |-> R_[zz][ids[probe][n]]]
        expected_rates == Mat(NComp, Len(obs), LAMBDA zz, mm :
            Vec(Len(ids), LAMBDA probe :
                ExpectedRates(obs[mm][probe], r(zz, probe),
                              Val(obj.cluster_means)[probe], c)))
        numerator == Mat(NComp, NTotal(c.n_clusters), LAMBDA zz, col :
            LET probe == ProbeOf(c.n_clusters, col)
            IN  PostDot(post, zz, LAMBDA mm :
                    expected_rates[zz][mm][probe]
                        [col - SumTo(c.n_clusters, probe - 1)]))
    IN  IF "r" \in c.params
        THEN [s1 EXCEPT !.post = VAdd(@, PostSum(post)),
                        !.numerator = MAdd(@, numerator)]
        ELSE s1

\* a variant of _do_mstep that also moves each cluster mean by the rate the
\* first state gives the cluster
MarkedMstepMovingClusters(obj, c, st) ==
    LET o1 == BaseMstep(obj, c, st)
        moved == [n \in 1 .. Len(Val(obj.cluster_means)) |->
                     <<RAdd(Val(obj.cluster_means)[n][1],
                            Val(obj.rate_)[1][n])>>]
    IN  [o1 EXCEPT !.cluster_means = Set(moved)]

\* a variant of _do_mstep that, in relative mode, divides each row by its
\* sum first and floors the entries afterwards
MarkedMstepFloorLast(obj, c, st) ==
    LET o1 == BaseMstep(obj, c, st)
        rp == PVal(obj.rate_prior)
        rw == PVal(obj.rate_weight)
        blended == Mat(NComp, Len(st.numerator[1]), LAMBDA k, n :
            RDiv(RAdd(RMul(rw, rp), st.numerator[k][n]), RAdd(rw, st.post[k])))
    IN  IF "r" \in c.params
        THEN [o1 EXCEPT !.rate_ =
                Set(Mat(NComp, Len(st.numerator[1]), LAMBDA k, n :
                        FloorAtEpsilon(IF c.rate_mode = "relative"
                                       THEN normalize(blended[k])[n]
                                       ELSE blended[k][n])))]
        ELSE o1

\* _do_mstep of the two classes
MarkedMstep(obj, c, st) ==
    LET o1 == BaseMstep(obj, c, st)
        rp == PVal(obj.rate_prior)
        rw == PVal(obj.rate_weight)
        floored == Mat(NComp, Len(st.numerator[1]), LAMBDA k, n :
            FloorAtEpsilon(RDiv(RAdd(RMul(rw, rp), st.numerator[k][n]),
                                RAdd(rw, st.post[k]))))
    IN  IF "r" \in c.params
        THEN [o1 EXCEPT !.rate_ =
                Set(IF c.rate_mode = "relative"
                    THEN Vec(NComp, LAMBDA k : normalize(floored[k]))
                    ELSE floored)]
        ELSE o1
MultiprobeMstep(obj, c, st) == MarkedMstep(obj, c, st)

----------------------------------------------------------------------------
(* The hooks, by family.                                                   *)

EmissionLetters(fam) ==
    CASE fam = "GaussianHMM" -> {"m", "c"}
      [] fam = "MultinomialHMM" -> {"e"}
      [] fam = "PoissonHMM" -> {"m"}
      [] fam = "GMMHMM" -> {"w", "m", "c"}
      [] fam \in {"MarkedPoissonHMM", "MultiprobeMarkedPoissonHMM"} -> {"r"}

\* a batch of one sequence of a single frame
OneFrameDataset(nf) == [nf |-> nf, seqs |-> <<<<Obs(1, 1, nf)>>>>]

\* the data sets a family trains on; for PoissonHMM also the one-frame
\* batches, which leave all states but one without a frame
TrainingSets(fam) ==
    CASE fam = "MultinomialHMM" -> {SymDataset(n) : n \in 1 .. MaxSeqs}
      [] fam = "PoissonHMM" ->
            Datasets \cup {OneFrameDataset(nf) : nf \in FeatureDims}
      [] fam = "MarkedPoissonHMM" -> {MarkDataset(n) : n \in 1 .. MaxSeqs}
      [] fam = "MultiprobeMarkedPoissonHMM" ->
            {ProbeDataset(n, 2) : n \in 1 .. MaxSeqs}
      [] OTHER -> Datasets

InitOutcomeOf(fam, obj, c, X) ==
    CASE fam = "GaussianHMM" ->
            IF GaussianInitRaises(obj, X) THEN "ValueError" ELSE "ok"
      [] fam = "MultinomialHMM" ->
            IF MultinomialInitRaises(X) THEN "ValueError" ELSE "ok"
      [] fam = "PoissonHMM" ->
            IF PoissonInitRaises(obj, X) THEN "ValueError" ELSE "ok"
      [] fam = "GMMHMM" ->
            IF GMMInitRaises(obj, c, X) THEN "ValueError" ELSE "ok"
      [] fam = "MarkedPoissonHMM" -> "ok"
      [] fam = "MultiprobeMarkedPoissonHMM" ->
            IF MultiprobeInitRaises(obj, c, X) THEN "AssertionError" ELSE "ok"

InitObjectOf(fam, obj, c, X) ==
    CASE fam = "GaussianHMM" -> GaussianInitObject(obj, c, X)
      [] fam = "MultinomialHMM" -> MultinomialInitObject(obj, c, X)
      [] fam = "PoissonHMM" -> PoissonInitObject(obj, c, X)
      [] fam = "GMMHMM" -> GMMInitObject(obj, c, X)
      [] fam = "MarkedPoissonHMM" -> MarkedInitObject(obj, c, X)
      [] fam = "MultiprobeMarkedPoissonHMM" -> MultiprobeInitObject(obj, c, X)

CheckOutcomeOf(fam, obj, c) ==
    CASE fam = "GaussianHMM" -> GaussianCheckOutcome(obj, c)
      [] fam = "MultinomialHMM" -> MultinomialCheckOutcome(obj, c)
      [] fam = "PoissonHMM" -> PoissonCheckOutcome(obj, c)
      [] fam = "GMMHMM" -> GMMCheckOutcome(obj, c)
      [] fam = "MarkedPoissonHMM" -> MarkedCheckOutcome(obj, c)
      [] fam = "MultiprobeMarkedPoissonHMM" -> MultiprobeCheckOutcome(obj, c)

CheckObjectOf(fam, obj, c) ==
    CASE fam = "GaussianHMM" -> GaussianCheckObject(obj, c)
      [] fam = "MultinomialHMM" -> MultinomialCheckObject(obj, c)
      [] fam = "PoissonHMM" -> PoissonCheckObject(obj, c)
      [] fam = "GMMHMM" -> GMMCheckObject(obj, c)
      [] fam \in {"MarkedPoissonHMM", "MultiprobeMarkedPoissonHMM"} ->
            MarkedCheckObject(obj, c)

StatsOf(fam, obj, c) ==
    CASE fam = "GaussianHMM" -> GaussianStats(obj, c)
      [] fam = "MultinomialHMM" -> MultinomialStats(obj, c)
      [] fam = "PoissonHMM" -> PoissonStats(obj, c)
      [] fam = "GMMHMM" -> GMMStats(obj, c)
      [] fam = "MarkedPoissonHMM" -> MarkedStats(obj, c)
      [] fam = "MultiprobeMarkedPoissonHMM" -> MultiprobeStats(obj, c)

AccumulateOf(fam, st, obj, c, seq, post) ==
    CASE fam = "GaussianHMM" -> GaussianAccumulate(st, obj, c, seq, post)
      [] fam = "MultinomialHMM" -> MultinomialAccumulate(st, obj, c, seq, post)
      [] fam = "PoissonHMM" -> PoissonAccumulate(st, obj, c, seq, post)
      [] fam = "GMMHMM" -> GMMAccumulate(st, obj, c, seq, post)
      [] fam = "MarkedPoissonHMM" -> MarkedAccumulate(st, obj, c, seq, post)
      [] fam = "MultiprobeMarkedPoissonHMM" ->
            MultiprobeAccumulate(st, obj, c, seq, post)

MstepOf(fam, obj, c, st) ==
    CASE fam = "GaussianHMM" -> GaussianMstep(obj, c, st)
      [] fam = "MultinomialHMM" -> MultinomialMstep(obj, c, st)
      [] fam = "PoissonHMM" -> PoissonMstep(obj, c, st)
      [] fam = "GMMHMM" -> GMMMstep(obj, c, st)
      [] fam = "MarkedPoissonHMM" -> MarkedMstep(obj, c, st)
      [] fam = "MultiprobeMarkedPoissonHMM" -> MultiprobeMstep(obj, c, st)

\* _generate_sample_from_state(state, random_state): how the call ends.
\* GaussianHMM, GMMHMM and PoissonHMM return a draw of the generator
\* (multivariate_normal, poisson), MultinomialHMM the first symbol whose
\* cumulative probability exceeds a uniform draw; the two marked-Poisson
\* classes raise.
SampleOutcomeOf(fam, obj, c, state) ==
    CASE fam \in {"MarkedPoissonHMM", "MultiprobeMarkedPoissonHMM"} ->
            "NotImplementedError"
      [] fam = "MultinomialHMM" ->
            IF state \in 1 .. Len(Val(obj.emissionprob_)) THEN "ok"
            ELSE "IndexError"
      [] fam = "GMMHMM" ->
            IF state \in 1 .. Len(Val(obj.weights_)) THEN "ok"
            ELSE "IndexError"
      [] fam \in {"GaussianHMM", "PoissonHMM"} ->
            IF state \in 1 .. Len(Val(obj.means_)) THEN "ok"
            ELSE "IndexError"

----------------------------------------------------------------------------
(* fit: _init, _check, then n_iter rounds of E-step and M-step.            *)

\* the total log-likelihood the E-steps of an iteration add up to
LogProbOf(shape) ==
    CASE shape = "certain" -> Q(-1)
      [] shape = "mixed" -> Q(-2)
      [] shape = "undecided" -> Q(-4)

\* a monitor that keeps the last two values only
ReportLastTwo(history, logprob) ==
    IF Len(history) < 2 THEN Append(history, logprob)
    ELSE <<history[Len(history)], logprob>>

\* the monitor is told the log-likelihood of the iteration just completed
Report(history, logprob) == Append(history, logprob)

\* the gain of the last iteration over the one before it is below tol
GainBelowTol(mon, c) ==
    LET n == Len(mon.history)
    IN  /\ n >= 2
        /\ RGt(c.tol, RSub(mon.history[n], mon.history[n - 1]))

\* a budget test that lets one round more through
BudgetExhaustedLate(mon, c) == mon.iter > c.n_iter

\* the iteration budget is used up
BudgetExhausted(mon, c) == mon.iter >= c.n_iter

\* where the loop of fit stands
FitStatus(mon, c) ==
    IF GainBelowTol(mon, c) THEN "Converged"
    ELSE IF BudgetExhausted(mon, c) THEN "MaxIterReached"
    ELSE "Iterating"

\* fit calls self._init(X, lengths); data is the X of the last _init that
\* succeeded
DoInit(X) ==
    /\ self' = InitObjectOf(family, self, cfg, X)
    /\ call' = Called("_init", X, InitOutcomeOf(family, self, cfg, X))
    /\ data' = IF InitOutcomeOf(family, self, cfg, X) = "ok" THEN Set(X)
               ELSE data
    /\ UNCHANGED <<family, cfg, stats, pending, accd, monitor>>

\* fit calls self._check()
DoCheck ==
    /\ self' = CheckObjectOf(family, self, cfg)
    /\ call' = Called("_check", <<>>, CheckOutcomeOf(family, self, cfg))
    /\ UNCHANGED <<family, cfg, stats, pending, accd, data, monitor>>

\* a variant of the start of an iteration that creates the accumulator once
\* and lets the later iterations add to the one they find
InitStatsOnce(shape) ==
    /\ \/ call.op = "_check" /\ call.ret = "ok"
       \/ call.op = "_do_mstep"
    /\ FitStatus(monitor, cfg) = "Iterating"
    /\ stats' = IF Has(stats) THEN stats ELSE Set(StatsOf(family, self, cfg))
    /\ pending' = 1 .. Len(Val(data).seqs)
    /\ accd' = <<>>
    /\ monitor' = [monitor EXCEPT !.shape = shape]
    /\ call' = Called("_initialize_sufficient_statistics", <<>>, "ok")
    /\ UNCHANGED <<family, cfg, self, data>>

\* an iteration starts: stats = self._initialize_sufficient_statistics();
\* shape is what the E-steps of the iteration will find
InitStats(shape) ==
    /\ \/ call.op = "_check" /\ call.ret = "ok"
       \/ call.op = "_do_mstep"
    /\ FitStatus(monitor, cfg) = "Iterating"
    /\ stats' = Set(StatsOf(family, self, cfg))
    /\ pending' = 1 .. Len(Val(data).seqs)
    /\ accd' = <<>>
    /\ monitor' = [monitor EXCEPT !.shape = shape]
    /\ call' = Called("_initialize_sufficient_statistics", <<>>, "ok")
    /\ UNCHANGED <<family, cfg, self, data>>

\* a variant of the accumulation step that also re-estimates startprob_
\* from the counts gathered so far
AccumulateUpdatingModel(i) ==
    /\ call.op \in {"_initialize_sufficient_statistics",
                    "_accumulate_sufficient_statistics"}
    /\ i \in pending
    /\ LET seq == Val(data).seqs[i]
           st == AccumulateOf(family, Val(stats), self, cfg, seq,
                              Posteriors(monitor.shape, i, Len(seq)))
       IN  /\ stats' = Set(st)
           /\ self' = [self EXCEPT !.startprob_ = Set(st.start)]
    /\ pending' = pending \ {i}
    /\ accd' = Append(accd, i)
    /\ call' = Called("_accumulate_sufficient_statistics", i, "ok")
    /\ UNCHANGED <<family, cfg, data, monitor>>

\* the E-step of sequence i
Accumulate(i) ==
    /\ call.op \in {"_initialize_sufficient_statistics",
                    "_accumulate_sufficient_statistics"}
    /\ i \in pending
    /\ LET seq == Val(data).seqs[i]
       IN  stats' = Set(AccumulateOf(family, Val(stats), self, cfg, seq,
                                     Posteriors(monitor.shape, i, Len(seq))))
    /\ pending' = pending \ {i}
    /\ accd' = Append(accd, i)
    /\ call' = Called("_accumulate_sufficient_statistics", i, "ok")
    /\ UNCHANGED <<family, cfg, self, data, monitor>>

\* every sequence is accumulated: self._do_mstep(stats)
DoMstep ==
    /\ call.op = "_accumulate_sufficient_statistics"
    /\ pending = {}
    /\ self' = MstepOf(family, self, cfg, Val(stats))
    /\ monitor' = [monitor EXCEPT
                      !.iter = @ + 1,
                      !.history = Report(@, LogProbOf(monitor.shape))]
    /\ accd' = <<>>
    /\ call' = Called("_do_mstep", <<>>, "ok")
    /\ UNCHANGED <<family, cfg, stats, pending, data>>

\* sample() on the trained model: one observation is drawn from a state
GenerateSample(state) ==
    /\ call.op = "_do_mstep"
    /\ FitStatus(monitor, cfg) # "Iterating"
    /\ call' = Called("_generate_sample_from_state", state,
                      SampleOutcomeOf(family, self, cfg, state))
    /\ UNCHANGED <<family, cfg, self, stats, pending, accd, data, monitor>>

\* the constructor arguments of the models trained
\* params: every letter of the family, every letter but one, and none
ParamChoices(fam) ==
    LET all == {"s", "t"} \cup EmissionLetters(fam)
    IN  {all, {}} \cup {all \ {l} : l \in all}
CovarianceChoices(fam) ==
    IF fam \in {"GaussianHMM", "GMMHMM"} THEN COVARIANCE_TYPES ELSE {"diag"}
\* the defaults of a family's signature
DefaultArgsOf(fam) ==
    CASE fam = "GMMHMM" ->
            [DefaultArgs EXCEPT !.covars_prior = None, !.covars_weight = None,
                                !.n_mix = 2]
      [] fam = "MarkedPoissonHMM" -> [DefaultArgs EXCEPT !.n_clusters = <<2>>]
      [] fam = "MultiprobeMarkedPoissonHMM" ->
            [DefaultArgs EXCEPT !.n_clusters = <<2, 1>>]
      [] OTHER -> DefaultArgs
\* the priors of the signature, informative ones and, for GaussianHMM, no
\* prior on the covariances
PriorChoices(fam) ==
    {DefaultArgsOf(fam)} \cup
    (IF fam = "GaussianHMM"
     THEN {[DefaultArgsOf(fam) EXCEPT !.covars_prior = Scalar(Q(0))]}
     ELSE {}) \cup
    {
     [DefaultArgsOf(fam) EXCEPT !.means_prior = Scalar(Q(1)),
                                !.means_weight = Scalar(Q(1)),
                                !.covars_prior = Scalar(Q(0)),
                                !.covars_weight = Scalar(Q(3)),
                                !.weights_prior = Scalar(Q(2)),
                                !.rate_prior = Scalar(Q(1)),
                                !.rate_weight = Scalar(Q(1)),
                                !.startprob_prior = Scalar(Q(2)),
                                !.transmat_prior = Scalar(Q(2))]}
RateModes(fam) ==
    IF fam \in {"MarkedPoissonHMM", "MultiprobeMarkedPoissonHMM"}
    THEN {"absolute", "relative"} ELSE {"absolute"}
\* the iteration budgets of the models trained
TrainIterations == {1}
\* beside them, a GMMHMM that keeps the mixture weights it is given
\* (init_params without 'w') and a PoissonHMM that keeps the rates it is
\* given (init_params without 'm')
TrainArgs(fam) ==
    {[a EXCEPT !.covariance_type = ct, !.params = ps, !.rate_mode = rm,
               !.n_iter = n] :
        a \in PriorChoices(fam), ct \in CovarianceChoices(fam),
        ps \in ParamChoices(fam), rm \in RateModes(fam),
        n \in TrainIterations} \cup
    (IF fam = "GMMHMM"
     THEN {[DefaultArgsOf(fam) EXCEPT !.init_params = @ \ {"w"},
                                      !.n_iter = n] : n \in TrainIterations}
     ELSE IF fam = "PoissonHMM"
     THEN {[DefaultArgsOf(fam) EXCEPT !.init_params = @ \ {"m"},
                                      !.n_iter = n] : n \in TrainIterations}
     ELSE {})

\* mixture weights as a user may assign them before fit (model.weights_ =
\* ...): rows that sum to 1 up to a rounding error, and rows that do not
UserWeights(c) ==
    {[k \in States |-> [m \in 1 .. c.n_mix |->
         IF m = 1 THEN RAdd(R(1, c.n_mix), R(1, 1000000))
         ELSE R(1, c.n_mix)]],
     [k \in States |-> [m \in 1 .. c.n_mix |-> R(1, c.n_mix + 1)]]}

AssignWeights(w) ==
    /\ family = "GMMHMM"
    /\ "w" \notin cfg.init_params
    /\ self' = [self EXCEPT !.weights_ = Set(w)]
    /\ call' = Called("assign", "weights_", "ok")
    /\ UNCHANGED <<family, cfg, stats, pending, accd, data, monitor>>

Init ==
    /\ family \in Families
    /\ \E a \in TrainArgs(family) :
          /\ cfg = NewCfg(a)
          /\ self = NewObject(family, a)
    /\ stats = Unset
    /\ pending = {}
    /\ accd = <<>>
    /\ data = Unset
    /\ monitor = NewMonitor
    /\ call = NoCall

\* the user assigns a PoissonHMM rates below zero (model.means_ = ...)
AssignNegativeRates(nf) ==
    /\ family = "PoissonHMM"
    /\ "m" \notin cfg.init_params
    /\ self' = [self EXCEPT !.means_ =
                   Set([k \in States |-> [f \in 1 .. nf |-> Q(-k)]])]
    /\ call' = Called("assign", "means_", "ok")
    /\ UNCHANGED <<family, cfg, stats, pending, accd, data, monitor>>

FitAssign ==
    /\ call.op = "__init__"
    /\ \/ \E w \in UserWeights(cfg) : AssignWeights(w)
       \/ \E nf \in FeatureDims : AssignNegativeRates(nf)
\* the rates a user assigns have one column per feature of the data fitted
AgreesWithAssigned(X) ==
    (family = "PoissonHMM" /\ Has(self.means_))
        => Len(Val(self.means_)[1]) = X.nf
FitInit ==
    /\ call.op \in {"__init__", "assign"}
    /\ \E X \in TrainingSets(family) : AgreesWithAssigned(X) /\ DoInit(X)
FitCheck == call.op = "_init" /\ call.ret = "ok" /\ DoCheck
FitIterate == \E shape \in PostShapes : InitStats(shape)
FitAccumulate == \E i \in pending : Accumulate(i)
FitSample == \E state \in States : GenerateSample(state)

Next ==
    \/ FitAssign
    \/ FitInit
    \/ FitCheck
    \/ FitIterate
    \/ FitAccumulate
    \/ DoMstep
    \/ FitSample

Spec == Init /\ [][Next]_vars

----------------------------------------------------------------------------
(* fit followed to its end, for every iteration budget up to MaxIter and   *)
(* for a tight and a loose tolerance.                                      *)

FitFamilies ==
    {"GaussianHMM", "MultinomialHMM", "PoissonHMM", "MarkedPoissonHMM"}
Tolerances == {R(1, 100), R(3, 2)}
FitArgs(fam) ==
    {[DefaultArgsOf(fam) EXCEPT !.n_iter = n, !.tol = t] :
        n \in 0 .. MaxIter, t \in Tolerances}
\* one sequence whose frame t holds the single mark t - 1
SingleMarkDataset ==
    [nprobes |-> 1, seqs |-> <<[t \in 1 .. SeqLen(1) |-> <<t - 1>>]>>]
FitData(fam) ==
    CASE fam = "MultinomialHMM" -> SymDataset(2)
      [] fam = "MarkedPoissonHMM" -> SingleMarkDataset
      [] OTHER -> Dataset(1, 2)

InitFit ==
    /\ family \in FitFamilies
    /\ \E a \in FitArgs(family) :
          /\ cfg = NewCfg(a)
          /\ self = NewObject(family, a)
    /\ stats = Unset
    /\ pending = {}
    /\ accd = <<>>
    /\ data = Unset
    /\ monitor = NewMonitor
    /\ call = NoCall

RunInit == call.op = "__init__" /\ DoInit(FitData(family))
RunCheck == call.op = "_init" /\ call.ret = "ok" /\ DoCheck
RunIterate == \E shape \in PostShapes : InitStats(shape)
RunAccumulate == \E i \in pending : Accumulate(i)
RunMstep == DoMstep

NextFit == RunInit \/ RunCheck \/ RunIterate \/ RunAccumulate \/ RunMstep

SpecFit == InitFit /\ [][NextFit]_vars

\* fit runs on: a step that can be taken is taken.  The loop of fit does not
\* read the parameters; the models followed here are PoissonHMM with
\* params = '', whose E-steps and M-steps leave the parameters as _init
\* seeded them, under every budget and tolerance.
LiveArgs == {[a EXCEPT !.params = {}] : a \in FitArgs("PoissonHMM")}

InitLive ==
    /\ family = "PoissonHMM"
    /\ \E a \in LiveArgs :
          /\ cfg = NewCfg(a)
          /\ self = NewObject(family, a)
    /\ stats = Unset
    /\ pending = {}
    /\ accd = <<>>
    /\ data = Unset
    /\ monitor = NewMonitor
    /\ call = NoCall

SpecFitLive == InitLive /\ [][NextFit]_vars /\ WF_vars(NextFit)

----------------------------------------------------------------------------
(* The expected rates of single frames: the body of the loop over frames   *)
(* of MarkedPoissonHMM._accumulate_sufficient_statistics, applied to the   *)
(* rates of one state, for up to MaxClusters clusters and MaxMarks marks.  *)

\* positions of the marks, near the cluster means and far from all of them
MarkValues == {0, 1, 7}
MarkLists == SeqsUpTo(MarkValues, MaxMarks)

\* rate_: the odd states give every cluster one rate, the even states rates
\* that grow with the cluster
RateChoices(N) ==
    {[k \in States |->
         IF k % 2 = 1 THEN [n \in 1 .. N |-> e]
         ELSE [n \in 1 .. N |-> R(2 * n, N * (N + 1))]] :
        e \in {R(1, N), Q(2)}}
\* cluster_means: the first cluster apart from the others, or all at one
\* place
ClusterMeanChoices(N) ==
    {[n \in 1 .. N |-> <<Q(IF n = 1 THEN 0 ELSE 2)>>],
     [n \in 1 .. N |-> <<Q(1)>>]}

InitRates ==
    /\ family = "MarkedPoissonHMM"
    /\ \E N \in 1 .. MaxClusters, rm \in RateModes(family) :
          LET a == [DefaultArgsOf(family) EXCEPT !.n_clusters = <<N>>,
                                                 !.rate_mode = rm]
          IN  /\ cfg = NewCfg(a)
              /\ \E rates \in RateChoices(N), means \in ClusterMeanChoices(N) :
                    self = [NewObject(family, a) EXCEPT
                              !.rate_ = Set(rates),
                              !.cluster_means = Set(means),
                              !.cluster_covars = Set(GaussianMixtureCovars(N))]
    /\ stats = Unset
    /\ pending = {}
    /\ accd = <<>>
    /\ data = Unset
    /\ monitor = NewMonitor
    /\ call = NoCall

\* expected_rates[mm, :] of a frame of the given marks, for state zz
ComputeExpectedRates(marks, zz) ==
    /\ call.op = "__init__"
    /\ call' = Called("expected_rates", [marks |-> marks, zz |-> zz],
                      ExpectedRates(marks, Val(self.rate_)[zz],
                                    Val(self.cluster_means), cfg))
    /\ UNCHANGED <<family, cfg, self, stats, pending, accd, data, monitor>>

NextRates == \E marks \in MarkLists, zz \in States : ComputeExpectedRates(marks, zz)

SpecRates == InitRates /\ [][NextRates]_vars

----------------------------------------------------------------------------
(* MultiprobeMarkedPoissonHMM over the layouts of up to MaxProbes probes:   *)
(* _init, _check and one round of training, in which cluster_ids is read.  *)

\* n_clusters: two probes or more, one or two clusters on each
ProbeLayouts ==
    {ncl \in SeqsUpTo({1, 2}, MaxProbes) : Len(ncl) >= 2}

InitProbes ==
    /\ family = "MultiprobeMarkedPoissonHMM"
    /\ \E ncl \in ProbeLayouts, rm \in RateModes(family) :
          LET a == [DefaultArgsOf(family) EXCEPT !.n_clusters = ncl,
                                                 !.rate_mode = rm,
                                                 !.n_iter = 1]
          IN  /\ cfg = NewCfg(a)
              /\ self = NewObject(family, a)
    /\ stats = Unset
    /\ pending = {}
    /\ accd = <<>>
    /\ data = Unset
    /\ monitor = NewMonitor
    /\ call = NoCall

\* the property cluster_ids, read by the accumulation that follows
ReadClusterIds ==
    /\ call.op = "_initialize_sufficient_statistics"
    /\ call' = Called("cluster_ids", <<>>, cluster_ids(cfg.n_clusters))
    /\ UNCHANGED <<family, cfg, self, stats, pending, accd, data, monitor>>

\* one sequence of two frames over np probes, every mark within reach of the
\* clusters of its probe
NearMarks(p, t) == [k \in 1 .. ((p + t) % 3) |-> (p + t + k) % 3]
NearProbeDataset(np) ==
    [nprobes |-> np,
     seqs |-> <<[t \in 1 .. 2 |-> [p \in 1 .. np |-> NearMarks(p, t)]]>>]

ProbeInit ==
    call.op = "__init__" /\ DoInit(NearProbeDataset(Len(cfg.n_clusters)))
ProbeCheck == call.op = "_init" /\ call.ret = "ok" /\ DoCheck
ProbeIterate == \E shape \in PostShapes : InitStats(shape)
ProbeAccumulate == \E i \in pending : Accumulate(i)
ProbeMstep == DoMstep

NextProbes ==
    \/ ProbeInit
    \/ ProbeCheck
    \/ ProbeIterate
    \/ ReadClusterIds
    \/ ProbeAccumulate
    \/ ProbeMstep

SpecProbes == InitProbes /\ [][NextProbes]_vars

----------------------------------------------------------------------------
(* _init and _check called again and again on one model object, on data    *)
(* of one feature count and another, with the user assigning a location    *)
(* parameter in between (model.means_ = ..., model.emissionprob_ = ...).   *)

InitFamilies == {"GaussianHMM", "PoissonHMM", "GMMHMM", "MultinomialHMM"}

\* the data the repeated calls are made with
InitInputs(fam) ==
    IF fam = "MultinomialHMM"
    THEN {SymDataset(1),
          [dtype |-> "int", syms |-> <<0, 1, 2>>, seqs |-> <<<<0, 1, 2>>>>]}
    ELSE {Dataset(nf, n) : nf \in FeatureDims, n \in {1, 2}}

\* a location parameter of feature count nf, as a user may assign it
UserParameter(fam, c, nf) ==
    CASE fam = "GMMHMM" ->
            [k \in States |-> [m \in 1 .. c.n_mix |-> [f \in 1 .. nf |-> Q(k)]]]
      [] fam = "MultinomialHMM" -> [k \in States |-> Uniform(nf)]
      [] OTHER -> [k \in States |-> [f \in 1 .. nf |-> Q(k)]]

AssignParameter(nf) ==
    /\ self' = IF family = "MultinomialHMM"
               THEN [self EXCEPT !.emissionprob_ =
                        Set(UserParameter(family, cfg, nf))]
               ELSE [self EXCEPT !.means_ =
                        Set(UserParameter(family, cfg, nf))]
    /\ call' = Called("assign", nf, "ok")
    /\ UNCHANGED <<family, cfg, stats, pending, accd, data, monitor>>

\* init_params: every letter of the family, every letter but one, and none
InitArgs(fam) ==
    {[a EXCEPT !.covariance_type = ct, !.init_params = ps] :
        a \in {DefaultArgsOf(fam)}, ct \in CovarianceChoices(fam),
        ps \in ParamChoices(fam)}

InitInit ==
    /\ family \in InitFamilies
    /\ \E a \in InitArgs(family) :
          /\ cfg = NewCfg(a)
          /\ self = NewObject(family, a)
    /\ stats = Unset
    /\ pending = {}
    /\ accd = <<>>
    /\ data = Unset
    /\ monitor = NewMonitor
    /\ call = NoCall

CallInit == call.n < MaxCalls /\ \E X \in InitInputs(family) : DoInit(X)
CallCheck == call.n < MaxCalls /\ call.n > 0 /\ DoCheck
CallAssign == call.n < MaxCalls /\ \E nf \in FeatureDims : AssignParameter(nf)

NextInit == CallInit \/ CallCheck \/ CallAssign

SpecInit == InitInit /\ [][NextInit]_vars

----------------------------------------------------------------------------
(* Multinomial input validation.                                           *)

\* the symbols are non-negative integers whose distinct values are
\* {0, ..., V-1} for some V >= 1
IsSymbolSample(X) ==
    /\ X.dtype = "int"
    /\ \E V \in 1 .. Len(X.syms) : Range(X.syms) = 0 .. (V - 1)

InitAccepted == call.op = "_init" /\ call.ret = "ok"
InitRejected == call.op = "_init" /\ call.ret = "ValueError"

----------------------------------------------------------------------------
(* Accumulation across the sequences of a batch.                           *)

\* the statistics a family's accumulation hook owns, and their rank
EmissionStats(fam) ==
    CASE fam = "GaussianHMM" ->
            {<<"post", 1>>, <<"obs", 2>>, <<"obs2", 2>>, <<"obsobsT", 3>>}
      [] fam = "MultinomialHMM" -> {<<"obs", 2>>}
      [] fam = "PoissonHMM" -> {<<"post", 1>>, <<"obs", 2>>}
      [] fam \in {"MarkedPoissonHMM", "MultiprobeMarkedPoissonHMM"} ->
            {<<"post", 1>>, <<"numerator", 2>>}
      [] fam = "GMMHMM" -> {<<"post_sum", 1>>, <<"post_mix_sum", 2>>}

TensorAdd(rank, a, b) ==
    CASE rank = 1 -> VAdd(a, b)
      [] rank = 2 -> MAdd(a, b)
      [] rank = 3 -> [k \in 1 .. Len(a) |-> MAdd(a[k], b[k])]

\* what sequence i alone adds to a fresh accumulator
Contribution(i) ==
    LET seq == Val(data).seqs[i]
    IN  AccumulateOf(family, StatsOf(family, self, cfg), self, cfg, seq,
                     Posteriors(monitor.shape, i, Len(seq)))

\* the sum over a set of sequences of their contributions to the emission
\* statistics
RECURSIVE SumOfContributions(_)
SumOfContributions(S) ==
    IF S = {} THEN StatsOf(family, self, cfg)
    ELSE LET i == CHOOSE j \in S : \A k \in S : j <= k
             one == Contribution(i)
             rest == SumOfContributions(S \ {i})
         IN  [n \in {e[1] : e \in EmissionStats(family)} |->
                 TensorAdd((CHOOSE e \in EmissionStats(family) : e[1] = n)[2],
                           one[n], rest[n])]

Accumulating == call.op = "_accumulate_sufficient_statistics"
AfterMstep == call.op = "_do_mstep"

\* C2: for GaussianHMM, MultinomialHMM, PoissonHMM, MarkedPoissonHMM and
\* MultiprobeMarkedPoissonHMM, whatever the order in which the sequences of
\* a batch were accumulated into a fresh accumulator, once every sequence
\* has been accumulated each emission statistic equals the sum of the
\* contributions of the sequences.
C2_AccumulationIsTheSum ==
    (family # "GMMHMM" /\ Accumulating /\ pending = {})
        => LET sum == SumOfContributions(Range(accd))
           IN  \A e \in EmissionStats(family) :
                  Val(stats)[e[1]] = sum[e[1]]

\* C2 witness: a Gaussian batch of two sequences was accumulated second
\* sequence first, and the statistics are not the zeros they started from
C2_Witness ==
    /\ family = "GaussianHMM"
    /\ Accumulating
    /\ pending = {}
    /\ accd = <<2, 1>>
    /\ cfg.params = {"s", "t", "m", "c"}
    /\ Val(stats).post # VZero(NComp)
    /\ Val(stats).obs # Contribution(1).obs
    /\ Val(stats).obs # Contribution(2).obs

\* the number of frames of the batch
TotalFrames == Len(Flatten(Val(data).seqs))

\* C3 as stated: after GMMHMM's accumulation hook has run for every sequence
\* of a batch, n_samples, samples, post_comp_mix and centered cover all the
\* frames of the batch, post_sum and post_mix_sum are the sums over all the
\* sequences, and so the statistics do not depend on the order.
C3_GMMStatsCoverTheBatch ==
    (family = "GMMHMM" /\ Accumulating /\ pending = {})
        => /\ Val(stats).n_samples = TotalFrames
           /\ Len(Val(stats).samples) = TotalFrames
           /\ Len(Val(stats).post_comp_mix) = TotalFrames
           /\ Len(Val(stats).centered) = TotalFrames
           /\ Val(stats).post_sum =
                 SumOfContributions(Range(accd)).post_sum
           /\ Val(stats).post_mix_sum =
                 SumOfContributions(Range(accd)).post_mix_sum

----------------------------------------------------------------------------
(* What the M-step may change.                                             *)

\* the parameter group a letter of params / init_params stands for
GroupOf(fam, letter) ==
    CASE letter = "m" -> "means_"
      [] letter = "c" -> "covars_"
      [] letter = "w" -> "weights_"
      [] letter = "e" -> "emissionprob_"
      [] letter = "r" -> "rate_"

\* the step just taken was a call of _do_mstep
MstepTaken == call'.op = "_do_mstep" /\ call'.n = call.n + 1

\* every group whose letter params lacks is as it was
AbsentGroupsKept ==
    \A l \in EmissionLetters(family) \ cfg.params :
        self'[GroupOf(family, l)] = self[GroupOf(family, l)]

\* C4: in _do_mstep of GaussianHMM, PoissonHMM, MultinomialHMM,
\* MarkedPoissonHMM and MultiprobeMarkedPoissonHMM, a parameter group whose
\* letter is absent from params has the same value after the M-step as
\* before it.
C4_MstepKeepsAbsentGroups ==
    [][(family # "GMMHMM" /\ MstepTaken) => AbsentGroupsKept]_vars

\* C4 witness: a Gaussian M-step with params "stc" has run: the means are
\* the ones _init seeded, the covariances are not
C4_Witness ==
    /\ family = "GaussianHMM"
    /\ AfterMstep
    /\ cfg.params = {"s", "t", "c"}
    /\ self.means_ = Set(KMeansCenters(Val(data), NComp))
    /\ self.covars_ #
          Set(distribute_covar(MAdd(Cov(Val(data)),
                                    MScale(cfg.min_covar, Eye(Val(data).nf))),
                               cfg.covariance_type, NComp))

\* C5 as stated: after GMMHMM._do_mstep, weights_ is unchanged when 'w' is
\* absent from params, means_ when 'm' is absent, covars_ when 'c' is
\* absent.
C5_GMMMstepKeepsAbsentGroups ==
    [][(family = "GMMHMM" /\ MstepTaken) => AbsentGroupsKept]_vars


----------------------------------------------------------------------------
(* What _init seeds, and what repeated calls leave of n_features.          *)

\* the step just taken was a call of _init that returned
InitReturned ==
    call'.op = "_init" /\ call'.n = call.n + 1 /\ call'.ret = "ok"

\* the value _init seeds a group with from the data X
SeedOf(fam, c, group, X) ==
    LET cv == MAdd(Cov(X), MScale(c.min_covar, Eye(X.nf)))
    IN  CASE fam = "GMMHMM" /\ group = "weights_" ->
                [k \in States |-> Uniform(c.n_mix)]
          [] fam = "GMMHMM" /\ group = "means_" ->
                GMMKMeansCenters(X, c.n_mix)
          [] fam = "GMMHMM" /\ group = "covars_" -> GMMInitialCovars(cv, c)
          [] fam # "GMMHMM" /\ group = "means_" -> KMeansCenters(X, NComp)
          [] fam # "GMMHMM" /\ group = "covars_" ->
                distribute_covar(cv, c.covariance_type, NComp)

\* C6: for GaussianHMM ('m', 'c'), PoissonHMM ('m') and GMMHMM ('w', 'm',
\* 'c'), an _init that returns has seeded from its data every group whose
\* letter is in init_params or that was not set, and has left every other
\* group as it was.
C6_InitSeedsSelectedGroups ==
    [][(family \in {"GaussianHMM", "PoissonHMM", "GMMHMM"} /\ InitReturned)
          => \A l \in EmissionLetters(family) :
                LET g == GroupOf(family, l)
                IN  IF l \in cfg.init_params \/ ~Has(self[g])
                    THEN self'[g] = Set(SeedOf(family, cfg, g, call'.arg))
                    ELSE self'[g] = self[g]]_vars

\* C6 witness: a Gaussian model with init_params "stc" whose means the user
\* assigned went through _init: the means are the user's, not the seed, and
\* the covariances are the seed
C6_Witness ==
    /\ family = "GaussianHMM"
    /\ call.op = "_init" /\ call.ret = "ok" /\ call.n > 1
    /\ cfg.init_params = {"s", "t", "c"}
    /\ self.means_ = Set(UserParameter(family, cfg, call.arg.nf))
    /\ self.means_ # Set(SeedOf(family, cfg, "means_", call.arg))
    /\ self.covars_ = Set(SeedOf(family, cfg, "covars_", call.arg))

\* C7 as stated: once an _init has succeeded, no later _init or _check on
\* the model changes the value n_features holds.
C7_FeatureCountImmutable ==
    [][(Has(data) /\ Has(self.n_features))
          => self'.n_features = self.n_features]_vars

----------------------------------------------------------------------------
(* Priors, the core parameters and the covariance floor during fit.         *)

PriorAttributes ==
    {"startprob_prior", "transmat_prior", "means_prior", "means_weight",
     "covars_prior", "covars_weight", "weights_prior", "rate_prior",
     "rate_weight"}

\* C8 as stated: no step of fit (_init, _check, accumulation, M-step)
\* assigns a new value to a prior attribute.
C8_PriorsNeverAssigned ==
    [][\A p \in PriorAttributes : self'[p] = self[p]]_vars

\* the blend of pseudo-counts and expected counts, renormalized
BlendedStart ==
    normalize([k \in States |->
        RAdd(PVal(self.startprob_prior), Val(stats).start[k])])
BlendedTrans(i) ==
    normalize([j \in States |->
        RAdd(PVal(self.transmat_prior), Val(stats).trans[i][j])])

\* C9: at the end of every M-step of every family, startprob_ and every row
\* of transmat_ are non-negative and sum to 1; when params selects them they
\* are the renormalized blend of the prior and the accumulated counts.
C9_CoreParametersNormalized ==
    AfterMstep
        => /\ IsDistribution(Val(self.startprob_))
           /\ \A i \in States : IsDistribution(Val(self.transmat_)[i])
           /\ "s" \in cfg.params => Val(self.startprob_) = BlendedStart
           /\ "t" \in cfg.params =>
                 \A i \in States : Val(self.transmat_)[i] = BlendedTrans(i)

\* C9 witness: an M-step has moved startprob_ and a row of transmat_ away
\* from the uniform values _init seeded
C9_Witness ==
    /\ AfterMstep
    /\ family = "MultinomialHMM"
    /\ Val(self.startprob_) # Uniform(NComp)
    /\ \E i \in States : Val(self.transmat_)[i] # Uniform(NComp)
    /\ IsDistribution(Val(self.startprob_))

\* C10 as stated: after GaussianHMM._init seeds the covariances and after
\* every M-step that updates them, every diagonal entry of every state's
\* covariance is at least min_covar.
C10_MinCovarFloorsDiagonal ==
    (/\ family = "GaussianHMM"
     /\ \/ call.op = "_init" /\ call.ret = "ok"
        \/ AfterMstep /\ "c" \in cfg.params)
        => \A k \in States :
              LET d == CovarDiagonals(Val(self.covars_),
                                      cfg.covariance_type)[k]
              IN  \A f \in 1 .. Len(d) : RGe(d[f], cfg.min_covar)

----------------------------------------------------------------------------
(* Mixture weights.                                                        *)

\* a row of weights sums to 1, up to the rounding of a floating-point sum
SumsToOne(row) ==
    LET sum == RSum(row)
    IN  /\ RGe(sum, R(99999, 100000))
        /\ RGe(R(100001, 100000), sum)

\* the denominator of the weight update of state j is not zero
WeightDenominatorNonZero(j) ==
    RAdd(Val(stats).post_sum[j],
         RMul(Q(cfg.n_mix), RSub(PVal(self.weights_prior), Q(1)))) # Q(0)

----------------------------------------------------------------------------
(* Sampling.                                                               *)

\* C12: for each of the six families and every state index of a trained
\* model, _generate_sample_from_state returns an observation: it does not
\* raise.
C12_SamplingReturnsAnObservation ==
    call.op = "_generate_sample_from_state" => call.ret = "ok"

----------------------------------------------------------------------------
(* Rates.                                                                  *)

\* C13: _check of PoissonHMM raises an error whenever an entry of means_
\* (the rates) is negative.
C13_NegativeRateRejected ==
    (/\ family = "PoissonHMM"
     /\ call.op = "_check"
     /\ Has(self.means_)
     /\ \E k \in 1 .. Len(Val(self.means_)) :
           \E f \in 1 .. Len(Val(self.means_)[k]) :
               RGt(Q(0), Val(self.means_)[k][f]))
        => call.ret # "ok"

----------------------------------------------------------------------------
(* The loop of fit.                                                        *)

\* fit has returned or raised
FitEnded ==
    \/ call.ret # "ok"
    \/ /\ call.op \in {"_check", "_do_mstep"}
       /\ FitStatus(monitor, cfg) \in {"Converged", "MaxIterReached"}

\* a round of E-step and M-step starts
RoundStarts == call'.op = "_initialize_sufficient_statistics"

\* C14: fit terminates.  It completes at most n_iter rounds; a round starts
\* only while the fit is neither Converged (gain below tol) nor at
\* MaxIterReached (budget used up); exhausting the budget raises nothing;
\* and every run of fit comes to its end.
C14_FitTerminates ==
    /\ [](monitor.iter <= cfg.n_iter)
    /\ [](FitStatus(monitor, cfg) = "MaxIterReached" => call.ret = "ok")
    /\ [][RoundStarts
            => /\ ~GainBelowTol(monitor, cfg)
               /\ monitor.iter < cfg.n_iter]_vars
    /\ <>[]FitEnded

\* a fit has converged with budget left, after a gain below the tolerance
C14_Witness ==
    /\ call.op = "_do_mstep"
    /\ FitStatus(monitor, cfg) = "Converged"
    /\ monitor.iter = 2
    /\ cfg.n_iter = MaxIter

\* the iteration being completed has a lower total log-likelihood than the
\* one before it
LogLikelihoodDrops ==
    /\ call'.op = "_do_mstep"
    /\ monitor.history # <<>>
    /\ RGt(monitor.history[Len(monitor.history)], LogProbOf(monitor.shape))

\* C15: a decrease of the log-likelihood between two iterations is not
\* fatal.  The iteration that brings it raises nothing and its value is
\* appended to the history; the history only ever grows at its end, and it
\* holds one value per completed iteration.
C15_DecreaseIsRecorded ==
    /\ [](Len(monitor.history) = monitor.iter)
    /\ [][\/ monitor'.history = monitor.history
           \/ /\ Len(monitor'.history) = Len(monitor.history) + 1
              /\ SubSeq(monitor'.history, 1, Len(monitor.history))
                     = monitor.history]_vars
    /\ [][LogLikelihoodDrops
            => /\ call'.ret = "ok"
               /\ monitor'.history =
                      Append(monitor.history, LogProbOf(monitor.shape))]_vars

\* an iteration has completed with a lower log-likelihood than the one
\* before it, and the history holds both values
C15_Witness ==
    /\ call.op = "_do_mstep"
    /\ call.ret = "ok"
    /\ monitor.iter = 2
    /\ Len(monitor.history) = 2
    /\ RGt(monitor.history[1], monitor.history[2])

----------------------------------------------------------------------------
(* The random generator.                                                   *)

\* C16: a MultinomialHMM constructed with an integer seed and seeding its
\* emission matrix ('e' in init_params) draws the same emissionprob_ in a
\* fit and in a refit of the same object on the same data.
C16_RefitReproducesInitialization ==
    [][(/\ family = "MultinomialHMM"
        /\ "e" \in cfg.init_params
        /\ call.op = "_init" /\ call.ret = "ok"
        /\ call'.op = "_init" /\ call'.ret = "ok"
        /\ call'.arg = call.arg)
           => self'.emissionprob_ = self.emissionprob_]_vars

\* the condition the docstring of _check_input_symbols gives: non-negative
\* integers, each integer of [min(X), max(X)] occurring at least once
IsDocumentedSample(X) ==
    /\ X.dtype = "int"
    /\ Len(X.syms) > 0
    /\ \A i \in 1 .. Len(X.syms) : X.syms[i] >= 0
    /\ \A v \in SetMin(Range(X.syms)) .. SetMax(Range(X.syms)) :
          v \in Range(X.syms)

C18_RateRowsSumToOne ==
    (/\ family = "MarkedPoissonHMM"
     /\ call.ret = "ok"
     /\ call.op \in {"_init", "_do_mstep"})
        => \A k \in States : RSum(Val(self.rate_)[k]) = Q(1)

\* a step of training after the bootstrap: an accumulation or an M-step
TrainingStep ==
    call'.op \in {"_initialize_sufficient_statistics",
                  "_accumulate_sufficient_statistics", "_do_mstep"}

\* C19: for the marked-Poisson families, no accumulation and no M-step
\* changes cluster_means or cluster_covars: through every round of
\* training they stay as the bootstrap of _init left them.
C19_ClusterDensitiesFixed ==
    [][(family \in {"MarkedPoissonHMM", "MultiprobeMarkedPoissonHMM"}
        /\ TrainingStep)
           => /\ self'.cluster_means = self.cluster_means
              /\ self'.cluster_covars = self.cluster_covars]_vars

\* C19 witness: a second M-step has re-estimated the rates of a marked
\* model, and the cluster densities are those of the bootstrap
C19_Witness ==
    /\ family = "MarkedPoissonHMM"
    /\ call.op = "_do_mstep"
    /\ monitor.iter = 2
    /\ Val(self.rate_) # RandomRates(check_random_state(self.random_state),
                                      cfg.n_clusters[1])
    /\ self.cluster_means = Set(GaussianMixtureMeans(cfg.n_clusters[1]))
    /\ self.cluster_covars = Set(GaussianMixtureCovars(cfg.n_clusters[1]))

\* the rates a state gives the clusters are all the same
EqualRates(r) == \A n \in 1 .. Len(r) : r[n] = r[1]
\* the clusters give the mark the same density
EqualDensities(mark, means) ==
    \A n \in 1 .. Len(means) :
        ClampedDensity(mark, means[n]) = ClampedDensity(mark, means[1])

----------------------------------------------------------------------------
(* The E-step and the life of the accumulator.                             *)

\* the step just taken was a call of _accumulate_sufficient_statistics
AccumulationTaken ==
    call'.op = "_accumulate_sufficient_statistics" /\ call'.n = call.n + 1

RECURSIVE ZeroOfRank(_, _)
ZeroOfRank(rank, t) ==
    IF rank = 0 THEN t = Q(0)
    ELSE \A i \in 1 .. Len(t) : ZeroOfRank(rank - 1, t[i])

\* the accumulator is as _initialize_sufficient_statistics creates it
ZeroStats(st) ==
    /\ st.nobs = 0
    /\ ZeroOfRank(1, st.start)
    /\ ZeroOfRank(2, st.trans)
    /\ \A e \in EmissionStats(family) : ZeroOfRank(e[2], st[e[1]])

StatsCreated ==
    call'.op = "_initialize_sufficient_statistics" /\ call'.n = call.n + 1

\* C22: within one training iteration the accumulator is created holding
\* zeros before the first sequence is accumulated; a sequence is accumulated
\* only into an accumulator created or added to in this iteration, and each
\* sequence once; the M-step runs only after every sequence of the batch
\* was accumulated; an M-step is followed by no accumulation and no other
\* M-step until a new accumulator was created, so each accumulator is read
\* by one M-step and none of its content reaches the next iteration.
C22_AccumulatorLifecycle ==
    /\ [][StatsCreated => ZeroStats(Val(stats')) /\ accd' = <<>>]_vars
    /\ [][AccumulationTaken
             => /\ call.op \in {"_initialize_sufficient_statistics",
                                "_accumulate_sufficient_statistics"}
                /\ call'.arg \notin Range(accd)]_vars
    /\ [][MstepTaken
             => /\ call.op = "_accumulate_sufficient_statistics"
                /\ Range(accd) = 1 .. Len(Val(data).seqs)
                /\ Len(accd) = Len(Val(data).seqs)]_vars
    /\ [](call.op = "_do_mstep" => accd = <<>>)

\* C22 witness: the accumulator of the second iteration was created, with
\* zeros, after the first iteration's accumulator had gathered the counts of
\* both sequences and its M-step had moved the means of a GaussianHMM
C22_Witness ==
    /\ family = "GaussianHMM"
    /\ call.op = "_initialize_sufficient_statistics"
    /\ monitor.iter = 1
    /\ Len(Val(data).seqs) = 2
    /\ ZeroStats(Val(stats))
    /\ Val(self.means_) # KMeansCenters(Val(data), NComp)

----------------------------------------------------------------------------
(* The rates of the marked-Poisson families and of PoissonHMM.             *)

MarkedFamilies == {"MarkedPoissonHMM", "MultiprobeMarkedPoissonHMM"}

\* C23: in relative rate mode, after an M-step of MarkedPoissonHMM or
\* MultiprobeMarkedPoissonHMM with 'r' in params, each state's rate vector
\* sums to 1 and every entry is strictly positive.
C23_RelativeRatesNormalized ==
    (/\ family \in MarkedFamilies
     /\ cfg.rate_mode = "relative"
     /\ "r" \in cfg.params
     /\ call.op = "_do_mstep")
        => \A k \in States :
              /\ RSum(Val(self.rate_)[k]) = Q(1)
              /\ \A n \in 1 .. Len(Val(self.rate_)[k]) :
                    RGt(Val(self.rate_)[k][n], Q(0))

\* C23 witness: a relative-mode M-step has run in which a state whose frames
\* held no mark had its rates floored and then shared out evenly, while
\* another state's rates follow the marks
C23_Witness ==
    /\ family = "MarkedPoissonHMM"
    /\ cfg.rate_mode = "relative"
    /\ "r" \in cfg.params
    /\ call.op = "_do_mstep"
    /\ \E k \in States :
          /\ Val(stats).numerator[k] = VZero(cfg.n_clusters[1])
          /\ Val(self.rate_)[k] = Uniform(cfg.n_clusters[1])
    /\ \E k \in States :
          /\ Val(stats).numerator[k] # VZero(cfg.n_clusters[1])
          /\ Val(self.rate_)[k] # Uniform(cfg.n_clusters[1])
          /\ RSum(Val(self.rate_)[k]) = Q(1)

----------------------------------------------------------------------------
(* The probes of MultiprobeMarkedPoissonHMM.                               *)

\* the columns of block p, as a set
BlockOf(ids, p) == Range(ids[p])

\* C25: cluster_ids partitions the columns of rate_ (the global cluster
\* indices, counted from the first column) into one block per probe: block
\* p holds exactly n_clusters[p] consecutive indices, the first block starts
\* at the first column, block p+1 starts right after block p ends, the
\* blocks are pairwise disjoint, and together they are all the columns of
\* rate_ and of the numerator statistic.
C25_ClusterIdsPartition ==
    call.op = "cluster_ids" =>
        LET ids == call.ret
            ncl == cfg.n_clusters
        IN  /\ Len(ids) = Len(ncl)
            /\ \A p \in 1 .. Len(ncl) :
                  /\ Len(ids[p]) = ncl[p]
                  /\ \A n \in 1 .. ncl[p] - 1 : ids[p][n + 1] = ids[p][n] + 1
            /\ ids[1][1] = 1
            /\ \A p \in 1 .. Len(ncl) - 1 :
                  ids[p + 1][1] = ids[p][ncl[p]] + 1
            /\ \A p, q \in 1 .. Len(ncl) :
                  p # q => BlockOf(ids, p) \cap BlockOf(ids, q) = {}
            /\ UNION {BlockOf(ids, p) : p \in 1 .. Len(ncl)}
                  = 1 .. Len(Val(self.rate_)[1])
            /\ Len(Val(stats).numerator[1]) = Len(Val(self.rate_)[1])

\* C25 witness: three probes of 2, 1 and 2 clusters: the blocks are columns
\* 1-2, 3 and 4-5 of a rate_ of five columns
C25_Witness ==
    /\ call.op = "cluster_ids"
    /\ cfg.n_clusters = <<2, 1, 2>>
    /\ call.ret = <<<<1, 2>>, <<3>>, <<4, 5>>>>
    /\ Len(Val(self.rate_)[1]) = 5

\* the sequence with the marks of every probe but p replaced by m
OtherMarksReplaced(seq, p, m) ==
    [t \in 1 .. Len(seq) |->
        [q \in 1 .. Len(seq[t]) |-> IF q = p THEN seq[t][q] ELSE m]]

\* the rates with the columns of every probe but p replaced by v
OtherRatesReplaced(rates, ncl, p, v) ==
    [k \in 1 .. Len(rates) |->
        [col \in 1 .. Len(rates[k]) |->
            IF ProbeOf(ncl, col) = p THEN rates[k][col] ELSE v]]

\* rate_ after one sequence is accumulated into a fresh accumulator and the
\* M-step has run
RatesAfterRound(obj, c, seq, post) ==
    Val(MultiprobeMstep(obj, c,
            MultiprobeAccumulate(MultiprobeStats(obj, c), obj, c, seq,
                                 post)).rate_)

\* the columns of probe p, for every state
RatesOfProbe(rates, ncl, p) ==
    [k \in 1 .. Len(rates) |->
        [n \in 1 .. ncl[p] |-> rates[k][SumTo(ncl, p - 1) + n]]]

BlendedRate(k, f) ==
    RDiv(RAdd(RMul(PVal(self.means_weight), PVal(self.means_prior)),
              Val(stats).obs[k][f]),
         RAdd(PVal(self.means_weight), Val(stats).post[k]))

\* C27: after every PoissonHMM M-step with 'm' in params, every entry of
\* means_ is at least 1e-3, and every entry whose blended estimate
\* (means_weight*means_prior + obs) / (means_weight + post) is above 1e-3
\* equals that estimate; so it is for a state whose occupancy is zero.
C27_PoissonRatesFloored ==
    (family = "PoissonHMM" /\ "m" \in cfg.params /\ call.op = "_do_mstep")
        => \A k \in States : \A f \in 1 .. Len(Val(self.means_)[k]) :
              /\ RGe(Val(self.means_)[k][f], R(1, 1000))
              /\ RGt(BlendedRate(k, f), R(1, 1000))
                    => Val(self.means_)[k][f] = BlendedRate(k, f)

\* C27 witness: an M-step without a prior weight has run on a one-frame
\* batch: the state that owned the frame has the observed rate, the state
\* of zero occupancy (estimate 0/0) has the floor
C27_Witness ==
    /\ family = "PoissonHMM"
    /\ "m" \in cfg.params
    /\ call.op = "_do_mstep"
    /\ PVal(self.means_weight) = Q(0)
    /\ \E k \in States :
          /\ Val(stats).post[k] = Q(0)
          /\ BlendedRate(k, 1) = NaN
          /\ Val(self.means_)[k][1] = R(1, 1000)
    /\ \E k \in States :
          /\ Val(stats).post[k] = Q(1)
          /\ Val(self.means_)[k][1] = Q(2)

----------------------------------------------------------------------------
(* fit called again on a trained model: a first fit of one round, then a   *)
(* second fit whose data may have another feature count, or symbols that   *)
(* are no multinomial sample.                                              *)

RefitFamilies ==
    {"GaussianHMM", "PoissonHMM", "MultinomialHMM", "MarkedPoissonHMM",
     "MultiprobeMarkedPoissonHMM"}
\* fit may be called while fewer than MaxFitCalls hook calls were made
MaxFitCalls == 7

\* for the marked families init_params with and without 'c'
RefitArgs(fam) ==
    {[DefaultArgsOf(fam) EXCEPT !.n_iter = 1, !.init_params = ps \cup cs] :
        ps \in ParamChoices(fam),
        cs \in IF fam \in {"MarkedPoissonHMM", "MultiprobeMarkedPoissonHMM"}
               THEN {{}, {"c"}} ELSE {{}}}

\* an array of symbols that skips the symbol 1
GappedSymbols ==
    [dtype |-> "int", syms |-> <<0, 2>>, seqs |-> <<<<0, 2>>>>]

\* one sequence of two frames, the marks 2 and 1
OtherMarkDataset == [nprobes |-> 1, seqs |-> <<<<<<2>>, <<1>>>>>>]

RefitInputs(fam) ==
    CASE fam = "MultinomialHMM" ->
            {SymDataset(1), SymDataset(2), GappedSymbols}
      [] fam = "MarkedPoissonHMM" -> {SingleMarkDataset, OtherMarkDataset}
      [] fam = "MultiprobeMarkedPoissonHMM" ->
            {NearProbeDataset(np) : np \in {1, 2}}
      [] OTHER -> {Dataset(nf, 1) : nf \in FeatureDims}

\* the E-step of the marked families evaluates the marks of every probe of
\* the model under cluster_means and cluster_covars: while they are None,
\* or when X has another number of probes, it raises, and fit ends before
\* any statistic is gathered
EStepRuns ==
    family \in {"MarkedPoissonHMM", "MultiprobeMarkedPoissonHMM"}
        => /\ Val(self.cluster_means) # None
           /\ Val(data).nprobes = Len(cfg.n_clusters)

InitRefit ==
    /\ family \in RefitFamilies
    /\ \E a \in RefitArgs(family) :
          /\ cfg = NewCfg(a)
          /\ self = NewObject(family, a)
    /\ stats = Unset
    /\ pending = {}
    /\ accd = <<>>
    /\ data = Unset
    /\ monitor = NewMonitor
    /\ call = NoCall

\* fit(X): self._init(X, lengths), on a new model or on a trained one
RefitInit ==
    /\ \/ call.op \in {"__init__", "_do_mstep"}
       \/ call.ret # "ok"
       \/ call.op = "_check" /\ ~EStepRuns
    /\ call.n < MaxFitCalls
    /\ \E X \in RefitInputs(family) : DoInit(X)

\* fit: self._check(), then self.monitor_._reset()
RefitCheck ==
    /\ call.op = "_init" /\ call.ret = "ok"
    /\ self' = CheckObjectOf(family, self, cfg)
    /\ call' = Called("_check", <<>>, CheckOutcomeOf(family, self, cfg))
    /\ monitor' = IF CheckOutcomeOf(family, self, cfg) = "ok"
                  THEN NewMonitor ELSE monitor
    /\ UNCHANGED <<family, cfg, stats, pending, accd, data>>

RefitIterate == EStepRuns /\ \E shape \in PostShapes : InitStats(shape)
RefitAccumulate == \E i \in pending : Accumulate(i)
RefitMstep == DoMstep

NextRefit ==
    RefitInit \/ RefitCheck \/ RefitIterate \/ RefitAccumulate \/ RefitMstep

SpecRefit == InitRefit /\ [][NextRefit]_vars

\* the model parameters
ParameterNames ==
    {"startprob_", "transmat_", "means_", "covars_", "emissionprob_",
     "n_features"}

\* the call made in this step is an _init that raised ValueError
InitRejectedNow ==
    call'.n = call.n + 1 /\ call'.op = "_init" /\ call'.ret = "ValueError"

\* C28: a rejected initialization leaves the model as it was.  When _init of
\* GaussianHMM or PoissonHMM raises because the feature count of the data
\* differs from n_features, and when _init of MultinomialHMM raises because
\* the symbols are invalid, each of startprob_, transmat_, means_, the
\* covariances, emissionprob_ and n_features has the value it had before
\* the call.
C28_RejectedInitChangesNothing ==
    [][InitRejectedNow => \A a \in ParameterNames : self'[a] = self[a]]_vars

\* the call made in this step is an _init
InitCalledNow == call'.n = call.n + 1 /\ call'.op = "_init"

\* C29: initialization of MarkedPoissonHMM and MultiprobeMarkedPoissonHMM is
\* one-shot.  _already_initialized is False at construction; it becomes True
\* only in an _init that completed without error; it never returns to
\* False; and an _init called while it is True changes no attribute of the
\* model, whatever init_params holds and whatever data it is given.
C29_MarkedInitOneShot ==
    /\ [](call.op = "__init__" => ~self.already_initialized)
    /\ [][self'.already_initialized # self.already_initialized
            => /\ ~self.already_initialized
               /\ InitCalledNow
               /\ call'.ret = "ok"]_vars
    /\ [][(family \in MarkedFamilies /\ self.already_initialized
             /\ InitCalledNow)
            => self' = self /\ call'.ret = "ok"]_vars

\* C29 witness: a trained marked model whose init_params names startprob_
\* was handed other data in a second _init, and kept the start probabilities
\* of its training
C29_Witness ==
    /\ family \in MarkedFamilies
    /\ call.op = "_init"
    /\ call.n > 5
    /\ self.already_initialized
    /\ "s" \in cfg.init_params
    /\ Val(self.startprob_) # Uniform(NComp)
    /\ call.arg # SingleMarkDataset
    /\ call.arg # NearProbeDataset(2)

----------------------------------------------------------------------------
(* The first _init of a newly constructed model, for every family and      *)
(* every choice of init_params.                                            *)

FreshArgs(fam) ==
    {[DefaultArgsOf(fam) EXCEPT !.covariance_type = ct,
                                !.init_params = ps \cup cs] :
        ct \in CovarianceChoices(fam),
        ps \in ParamChoices(fam),
        cs \in IF fam \in {"MarkedPoissonHMM", "MultiprobeMarkedPoissonHMM"}
               THEN {{}, {"c"}} ELSE {{}}}

InitFresh ==
    /\ family \in Families
    /\ \E a \in FreshArgs(family) :
          /\ cfg = NewCfg(a)
          /\ self = NewObject(family, a)
    /\ stats = Unset
    /\ pending = {}
    /\ accd = <<>>
    /\ data = Unset
    /\ monitor = NewMonitor
    /\ call = NoCall

FreshInit == call.op = "__init__" /\ \E X \in TrainingSets(family) : DoInit(X)
FreshCheck == call.op = "_init" /\ call.ret = "ok" /\ DoCheck

NextFresh == FreshInit \/ FreshCheck

SpecFresh == InitFresh /\ [][NextFresh]_vars

\* the emission parameters the E-step of a family reads
EmissionParametersSet ==
    CASE family = "GaussianHMM" -> Has(self.means_) /\ Has(self.covars_)
      [] family = "PoissonHMM" -> Has(self.means_)
      [] family = "GMMHMM" ->
            Has(self.weights_) /\ Has(self.means_) /\ Has(self.covars_)
      [] family = "MultinomialHMM" ->
            Has(self.emissionprob_) /\ Has(self.n_features)
      [] OTHER ->
            /\ Has(self.rate_)
            /\ Val(self.cluster_means) # None
            /\ Val(self.cluster_covars) # None

\* C30: after an _init that succeeded on a newly constructed model, every
\* emission parameter the E-step reads is set, whatever init_params holds:
\* means_ and the covariances of GaussianHMM, means_ of PoissonHMM,
\* weights_, means_ and covars_ of GMMHMM, emissionprob_ and n_features of
\* MultinomialHMM, rate_, cluster_means and cluster_covars of the marked
\* classes.
C30_FirstInitSetsEmissionParameters ==
    (call.op = "_init" /\ call.ret = "ok" /\ call.n = 1)
        => EmissionParametersSet


============================================================================
